---- MODULE Spec2Model ----
(***************************************************************************)
(* Model of the semmailer batch store (semlist.py and                     *)
(* scripts/import_students.py): the mailing-list database file, the        *)
(* command-line operations add, rem and optimize, the spreadsheet import,  *)
(* and the parsing of the add command's arguments (tokenizer, the three    *)
(* entry formats, parse_name). Text is kept as sequences of one-character  *)
(* strings, so that str.lower(), str.strip(), str.split() and the          *)
(* patterns are computed character by character.                           *)
(* The folder of databases (new, del, activate, config.json), writes that  *)
(* fail, two processes writing one database, and a batch limit other than  *)
(* the shipped one each have a specification of their own below.           *)
(***************************************************************************)
EXTENDS Integers, Sequences, FiniteSets, TLC

\* ------------------------------------------------------------------ bounds
\* The source's batch limit is the literal 57 (MAX_EMAILS_PER_BATCH and the
\* default of optimize_batches' max_per_batch); the model scales it down.
BatchLimit == 2
\* Longest list of parsed entries handed to one add command.
MaxAdd == 2
\* Last calendar day the clock reaches.
MaxDay == 1
\* Longest text handed to the tokenizer alone.
MaxText == 5
\* Longest name handed to parse_name alone.
MaxName == 5
\* Most fragments in the arguments of one add command.
MaxFragments == 2
\* Highest batch id add_emails_to_database is followed to.
MaxBatchId == 4

\* --------------------------------------------------------- program constants
MAX_EMAILS_PER_BATCH == BatchLimit
DEFAULT_MAX_PER_BATCH == BatchLimit

\* ------------------------------------------------------------------- state
VARIABLES
    batches,        \* "batches" list of the active database file
    last_modified,  \* "last_modified" value of the database file (a day)
    today,          \* the date datetime.now() returns
    op,             \* the command that has just run: its inputs and outcome
    pre,            \* the database file's content when that command started
    call,           \* a parsing function's argument and, once it has run, result
    dbase,          \* the files of DATABASE_FOLDER: file name -> content
    procs           \* two concurrent commands: what each has read and done

vars == <<batches, last_modified, today, op, pre, call, dbase, procs>>

\* ------------------------------------------------------------ text helpers
\* str.lower() on one character, for the letters the inputs use.
LowerChar(c) ==
    CASE c = "A" -> "a"
      [] c = "B" -> "b"
      [] c = "I" -> "i"
      [] c = "O" -> "o"
      [] c = "Z" -> "z"
      [] c = "Y" -> "y"
      [] c = "E" -> "e"
      [] c = "S" -> "s"
      [] OTHER -> c

\* The characters of the addresses the commands are given and of the
\* answers typed at the prompt of del.
Alphabet ==
    { "a", "A", "b", "B", "i", "I", "o", "O", "z", "Z", "7", "8", "@", "1", ".",
      "y", "Y", "e", "E", "s", "S", "n", " " }

\* LowerChar tabulated over the alphabet.
LowerTable == [c \in Alphabet |-> LowerChar(c)]

\* str.lower()
Lower(s) == [i \in DOMAIN s |-> LowerTable[s[i]]]

\* ---------------------------------------------------------------- entries
NoText == <<>>

\* The dict parse_email_entries emits for one fragment.
ParsedEntry(email, name, first, middle, last) ==
    [email |-> email,
     name |-> name,
     full_entry |-> IF name # NoText
                    THEN <<"\"">> \o name \o <<"\"", " ", "<">> \o email \o <<">", ";">>
                    ELSE <<"<">> \o email \o <<">", ";">>,
     first_name |-> first,
     middle_names |-> middle,
     last_name |-> last]

\* The dict build_entries emits for one spreadsheet row ("_row_number" is
\* dropped before the entry is stored).
StudentEntry(email, name, first, middle, last) ==
    [email |-> email,
     name |-> name,
     full_entry |-> <<"\"">> \o name \o <<"\"", " ", "<">> \o email \o <<">", ";">>,
     first_name |-> first,
     middle_names |-> middle,
     last_name |-> last]

Email_a  == <<"a", "@", "1", ".", "i", "o">>
Email_A  == <<"A", "@", "1", ".", "i", "o">>
Email_b  == <<"b", "@", "1", ".", "i", "o">>
Email_B  == <<"B", "@", "1", ".", "i", "o">>
Email_7  == <<"7", "@", "1", ".", "i", "o">>
Email_7U == <<"7", "@", "1", ".", "I", "O">>
Email_8  == <<"8", "@", "1", ".", "i", "o">>
Email_8U == <<"8", "@", "1", ".", "I", "O">>
Email_z  == <<"z", "@", "1", ".", "i", "o">>

\* Entries the add command's parser can hand over.
ParsedEntries ==
    { ParsedEntry(Email_a, NoText, NoText, NoText, NoText),
      ParsedEntry(Email_A, <<"J", " ", "D">>, <<"J">>, NoText, <<"D">>),
      ParsedEntry(Email_b, NoText, NoText, NoText, NoText),
      ParsedEntry(Email_7, NoText, NoText, NoText, NoText) }

\* Entries one spreadsheet import (one email domain, "1.IO") can hand over.
StudentEntries ==
    { StudentEntry(Email_7U, <<"K">>, <<"K">>, NoText, NoText),
      StudentEntry(Email_8U, <<"L">>, <<"L">>, NoText, NoText) }

\* Addresses the rem command is given.
RemoveArgs ==
    { Email_a, Email_A, Email_B, Email_7, Email_8, Email_z }

\* Lists of length 0..n over S.
SeqUpTo(S, n) == UNION { [1..k -> S] : k \in 0..n }

\* Lists of parsed entries one add command can be given (the empty list
\* when no fragment parses); an address given twice comes in two spellings.
AddLists ==
    { s \in SeqUpTo(ParsedEntries, MaxAdd) : \A i, j \in DOMAIN s : i # j => s[i] # s[j] }

\* ------------------------------------------------------------------ parsing
\* Characters str.strip() and str.split() take for whitespace, and the
\* pattern \s matches.
Whitespace == { " ", "\t", "\n", "\r" }

\* The argument chars of strip(" '\"").
QuoteChars == { " ", "'", "\"" }

RECURSIVE LStrip(_, _)
\* str.lstrip(chars)
LStrip(s, chars) ==
    IF s # <<>> /\ Head(s) \in chars THEN LStrip(Tail(s), chars) ELSE s

RECURSIVE RStrip(_, _)
\* str.rstrip(chars)
RStrip(s, chars) ==
    IF s # <<>> /\ s[Len(s)] \in chars
    THEN RStrip(SubSeq(s, 1, Len(s) - 1), chars)
    ELSE s

\* str.strip(chars)
Strip(s, chars) == RStrip(LStrip(s, chars), chars)

\* entries.append(current_entry.strip()) under "if current_entry.strip()".
Flush(entries, current_entry) ==
    IF Strip(current_entry, Whitespace) # <<>>
    THEN Append(entries, Strip(current_entry, Whitespace))
    ELSE entries

RECURSIVE TokenizeLoop_SplitsAnywhere(_, _, _, _)
\* TokenizeLoop splitting at every semicolon.
TokenizeLoop_SplitsAnywhere(input_str, entries, current_entry, in_angle_brackets) ==
    IF input_str = <<>>
    THEN Flush(entries, current_entry)
    ELSE IF Head(input_str) = ";"
         THEN TokenizeLoop_SplitsAnywhere(Tail(input_str), Flush(entries, current_entry),
                                          <<>>, in_angle_brackets)
         ELSE TokenizeLoop_SplitsAnywhere(Tail(input_str), entries,
                                          Append(current_entry, Head(input_str)),
                                          in_angle_brackets)

RECURSIVE TokenizeLoop(_, _, _, _)
\* Step 1 of parse_email_entries from the loop over input_str on: the
\* entries list after the loop and the flush of the last entry.
TokenizeLoop(input_str, entries, current_entry, in_angle_brackets) ==
    IF input_str = <<>>
    THEN Flush(entries, current_entry)
    ELSE LET char == Head(input_str)
             flag == IF char = "<"
                     THEN TRUE
                     ELSE IF char = ">" THEN FALSE ELSE in_angle_brackets
         IN  IF char = ";" /\ ~flag
             THEN TokenizeLoop(Tail(input_str), Flush(entries, current_entry),
                               <<>>, flag)
             ELSE TokenizeLoop(Tail(input_str), entries,
                               Append(current_entry, char), flag)

\* Step 1 of parse_email_entries: the fragments of input_str.
Tokenize(input_str) == TokenizeLoop(input_str, <<>>, <<>>, FALSE)

RECURSIVE SplitLoop(_, _, _)
\* str.split(): the runs of characters of s that are not whitespace, with
\* word the run being read.
SplitLoop(s, parts, word) ==
    IF s = <<>>
    THEN IF word = <<>> THEN parts ELSE Append(parts, word)
    ELSE IF Head(s) \in Whitespace
         THEN SplitLoop(Tail(s), IF word = <<>> THEN parts ELSE Append(parts, word), <<>>)
         ELSE SplitLoop(Tail(s), parts, Append(word, Head(s)))

\* str.split()
Split(s) == SplitLoop(s, <<>>, <<>>)

RECURSIVE Join(_, _)
\* sep.join(parts)
Join(sep, parts) ==
    IF parts = <<>>
    THEN <<>>
    ELSE IF Len(parts) = 1
         THEN parts[1]
         ELSE parts[1] \o sep \o Join(sep, Tail(parts))

\* What parse_name returns, or the IndexError it raises.
NameComponents(first, middle, last) ==
    [raised |-> FALSE, first_name |-> first, middle_names |-> middle, last_name |-> last]

IndexError ==
    [raised |-> TRUE, first_name |-> <<>>, middle_names |-> <<>>, last_name |-> <<>>]

\* parse_name(full_name)
parse_name(full_name) ==
    LET name == Strip(full_name, QuoteChars)
        name_parts == Split(name)
        num_parts == Len(name_parts)
    IN  IF name = <<>>
        THEN NameComponents(<<>>, <<>>, <<>>)
        ELSE IF num_parts = 1
             THEN NameComponents(name_parts[1], <<>>, <<>>)
             ELSE IF num_parts = 2
                  THEN NameComponents(name_parts[1], <<>>, name_parts[2])
                  ELSE IF num_parts = 0
                       THEN IndexError
                       ELSE NameComponents(name_parts[1],
                                           Join(<<" ">>, SubSeq(name_parts, 2, num_parts - 1)),
                                           name_parts[num_parts])

\* [a-zA-Z]
Letters ==
    { "a", "b", "c", "d", "e", "f", "g", "h", "i", "j", "k", "l", "m", "n", "o", "p", "q", "r", "s", "t", "u", "v", "w", "x", "y", "z" }
    \cup { "A", "B", "C", "D", "E", "F", "G", "H", "I", "J", "K", "L", "M", "N", "O", "P", "Q", "R", "S", "T", "U", "V", "W", "X", "Y", "Z" }

\* [0-9]
Digits == { "0", "1", "2", "3", "4", "5", "6", "7", "8", "9" }

\* [a-zA-Z0-9._%+-]
LocalChars == Letters \cup Digits \cup { ".", "_", "%", "+", "-" }

\* [a-zA-Z0-9.-]
DomainChars == Letters \cup Digits \cup { ".", "-" }

\* The whole of e matches email_pattern_core: a local part, "@", a domain,
\* "." and two letters or more.
IsEmailCore(e) ==
    \E at \in 2..Len(e) :
        /\ e[at] = "@"
        /\ \A i \in 1..(at - 1) : e[i] \in LocalChars
        /\ \E dot \in (at + 2)..(Len(e) - 2) :
              /\ e[dot] = "."
              /\ \A i \in (at + 1)..(dot - 1) : e[i] \in DomainChars
              /\ \A i \in (dot + 1)..Len(e) : e[i] \in Letters

\* The text "$" ends a match at: the entry, or the entry without its final
\* line break.
BeforeDollar(entry) ==
    IF entry # <<>> /\ entry[Len(entry)] = "\n"
    THEN { entry, SubSeq(entry, 1, Len(entry) - 1) }
    ELSE { entry }

NoMatch == [matched |-> FALSE, name |-> <<>>, email |-> <<>>]

\* name_email_pattern.match(entry): groups 1 and 2. The "<" of the match is
\* the last one, as the address holds none; the non-greedy group 1 ends
\* before the whitespace in front of it and holds no line break.
MatchNameEmail(entry) ==
    LET hits == { <<t, p>> \in BeforeDollar(entry) \X DOMAIN entry :
                    /\ p < Len(t)
                    /\ t[Len(t)] = ">"
                    /\ t[p] = "<"
                    /\ IsEmailCore(SubSeq(t, p + 1, Len(t) - 1))
                    /\ \A i \in 1..Len(RStrip(SubSeq(t, 1, p - 1), Whitespace)) :
                          t[i] # "\n" }
    IN  IF hits = {}
        THEN NoMatch
        ELSE LET h == CHOOSE x \in hits : \A y \in hits : Len(x[1]) >= Len(y[1])
                 t == h[1]
                 q == h[2]
             IN  [matched |-> TRUE,
                  name |-> RStrip(SubSeq(t, 1, q - 1), Whitespace),
                  email |-> SubSeq(t, q + 1, Len(t) - 1)]

\* angle_email_pattern.match(entry): group 1.
MatchAngle(entry) ==
    LET hits == { t \in BeforeDollar(entry) :
                    /\ Len(t) >= 2
                    /\ t[1] = "<"
                    /\ t[Len(t)] = ">"
                    /\ IsEmailCore(SubSeq(t, 2, Len(t) - 1)) }
    IN  IF hits = {}
        THEN NoMatch
        ELSE LET t == CHOOSE x \in hits : TRUE
             IN  [matched |-> TRUE, name |-> <<>>, email |-> SubSeq(t, 2, Len(t) - 1)]

\* plain_email_pattern.match(entry): group 1.
MatchPlain(entry) ==
    LET hits == { t \in BeforeDollar(entry) : IsEmailCore(t) }
    IN  IF hits = {}
        THEN NoMatch
        ELSE [matched |-> TRUE, name |-> <<>>, email |-> CHOOSE x \in hits : TRUE]

\* What parse_email_entries returns, or that an exception left it.
Parsed(entries) == [raised |-> FALSE, entries |-> entries]

ParseRaised == [raised |-> TRUE, entries |-> <<>>]

RECURSIVE ParseLoop(_, _)
\* Step 2 of parse_email_entries: the loop over the fragments.
ParseLoop(entries, parsed_entries) ==
    IF entries = <<>>
    THEN Parsed(parsed_entries)
    ELSE LET entry == Strip(Head(entries), QuoteChars)
             m1 == MatchNameEmail(entry)
             m2 == MatchAngle(entry)
             m3 == MatchPlain(entry)
         IN  IF m1.matched
             THEN LET full_name == Strip(m1.name, QuoteChars)
                      email == Strip(m1.email, Whitespace)
                      name_components == parse_name(full_name)
                  IN  IF name_components.raised
                      THEN ParseRaised
                      ELSE ParseLoop(Tail(entries),
                                     Append(parsed_entries,
                                            ParsedEntry(email, full_name,
                                                        name_components.first_name,
                                                        name_components.middle_names,
                                                        name_components.last_name)))
             ELSE IF m2.matched
                  THEN ParseLoop(Tail(entries),
                                 Append(parsed_entries,
                                        ParsedEntry(Strip(m2.email, Whitespace), NoText,
                                                    NoText, NoText, NoText)))
                  ELSE IF m3.matched
                       THEN ParseLoop(Tail(entries),
                                      Append(parsed_entries,
                                             ParsedEntry(Strip(m3.email, Whitespace),
                                                         NoText, NoText, NoText, NoText)))
                       ELSE ParseLoop(Tail(entries), parsed_entries)

\* parse_email_entries(args_list)
parse_email_entries(args_list) ==
    IF args_list = <<>>
    THEN Parsed(<<>>)
    ELSE ParseLoop(Tokenize(Join(<<" ">>, args_list)), <<>>)

\* ------------------------------------------------------------ pure functions
RECURSIVE Flatten_Prepending(_)
\* Flatten putting each batch before the ones already collected.
Flatten_Prepending(bs) ==
    IF bs = <<>> THEN <<>> ELSE Flatten_Prepending(Tail(bs)) \o Head(bs).emails

RECURSIVE Flatten(_)
\* all_emails of optimize_batches: every batch's entries, in batch order.
Flatten(bs) ==
    IF bs = <<>> THEN <<>> ELSE Head(bs).emails \o Flatten(Tail(bs))

\* is_email_exists comparing the addresses as spelled.
is_email_exists_CaseSensitive(email, data) ==
    IF data.batches = <<>>
    THEN FALSE
    ELSE \E i \in DOMAIN data.batches :
            \E j \in DOMAIN data.batches[i].emails :
                data.batches[i].emails[j].email = email

\* is_email_exists looking at the last batch only.
is_email_exists_LastBatchOnly(email, data) ==
    IF data.batches = <<>>
    THEN FALSE
    ELSE \E j \in DOMAIN data.batches[Len(data.batches)].emails :
            Lower(data.batches[Len(data.batches)].emails[j].email) = Lower(email)

\* is_email_exists(email, data)
is_email_exists(email, data) ==
    IF data.batches = <<>>
    THEN FALSE
    ELSE LET lowered == Lower(email)
         IN  \E i \in DOMAIN data.batches :
                \E j \in DOMAIN data.batches[i].emails :
                    Lower(data.batches[i].emails[j].email) = lowered

\* new_entry_of composing full_entry without the name.
new_entry_of_BareAddress(entry) ==
    [email |-> entry.email,
     name |-> entry.name,
     full_entry |-> <<"<">> \o entry.email \o <<">", ";">>,
     first_name |-> entry.first_name,
     middle_names |-> entry.middle_names,
     last_name |-> entry.last_name]

\* add_email_entry, "Format the new entry": the dict that is stored.
new_entry_of(entry) ==
    LET name == entry.name
        email == entry.email
        full_entry == IF name # NoText
                      THEN <<"\"">> \o name \o <<"\"", " ", "<">> \o email \o <<">", ";">>
                      ELSE <<"<">> \o email \o <<">", ";">>
    IN  [email |-> email,
         name |-> name,
         full_entry |-> full_entry,
         first_name |-> entry.first_name,
         middle_names |-> entry.middle_names,
         last_name |-> entry.last_name]

\* place_entry taking a batch at the limit to have room still.
place_entry_OffByOne(new_entry, bs) ==
    IF bs # <<>> /\ Len(bs[Len(bs)].emails) <= MAX_EMAILS_PER_BATCH
    THEN [bs EXCEPT ![Len(bs)].emails = Append(@, new_entry)]
    ELSE Append(bs, [id |-> Len(bs) + 1, emails |-> <<new_entry>>])

RECURSIVE FirstWithRoom(_, _)
\* Index of the first batch from i on with fewer entries than the limit, 0
\* when there is none.
FirstWithRoom(bs, i) ==
    IF i > Len(bs)
    THEN 0
    ELSE IF Len(bs[i].emails) < MAX_EMAILS_PER_BATCH
         THEN i
         ELSE FirstWithRoom(bs, i + 1)

\* place_entry filling the first batch that has room.
place_entry_FirstFit(new_entry, bs) ==
    LET i == FirstWithRoom(bs, 1)
    IN  IF i > 0
        THEN [bs EXCEPT ![i].emails = Append(@, new_entry)]
        ELSE Append(bs, [id |-> Len(bs) + 1, emails |-> <<new_entry>>])

\* place_entry opening a new batch for every entry.
place_entry_NewBatchEach(new_entry, bs) ==
    Append(bs, [id |-> Len(bs) + 1, emails |-> <<new_entry>>])

\* place_entry putting the entry at the front of the last batch.
place_entry_AtFront(new_entry, bs) ==
    IF bs # <<>> /\ Len(bs[Len(bs)].emails) < MAX_EMAILS_PER_BATCH
    THEN [bs EXCEPT ![Len(bs)].emails = <<new_entry>> \o @]
    ELSE Append(bs, [id |-> Len(bs) + 1, emails |-> <<new_entry>>])

\* add_email_entry, "Add to the last batch if it exists and has room,
\* otherwise create a new batch", when the module's MAX_EMAILS_PER_BATCH is
\* set to limit: the batches list afterwards.
place_entry_under(new_entry, bs, limit) ==
    IF bs # <<>> /\ Len(bs[Len(bs)].emails) < limit
    THEN [bs EXCEPT ![Len(bs)].emails = Append(@, new_entry)]
    ELSE Append(bs, [id |-> Len(bs) + 1, emails |-> <<new_entry>>])

\* The same with MAX_EMAILS_PER_BATCH as the source sets it.
place_entry(new_entry, bs) == place_entry_under(new_entry, bs, MAX_EMAILS_PER_BATCH)

\* add_email_entry(entry, data): the return value and data as mutated.
add_email_entry(entry, data) ==
    IF is_email_exists(entry.email, data)
    THEN [ret |-> FALSE, data |-> data]
    ELSE [ret |-> TRUE,
          data |-> [data EXCEPT !.batches = place_entry(new_entry_of(entry), @)]]

RECURSIVE AddLoop_StopsAtDuplicate(_, _, _)
\* The loop of add_emails ending at the first entry add_email_entry refuses.
AddLoop_StopsAtDuplicate(entries, data, added_count) ==
    IF entries = <<>>
    THEN [data |-> data, added_count |-> added_count]
    ELSE LET r == add_email_entry(Head(entries), data)
         IN  IF r.ret
             THEN AddLoop_StopsAtDuplicate(Tail(entries), r.data, added_count + 1)
             ELSE [data |-> data, added_count |-> added_count]

RECURSIVE AddLoop(_, _, _)
\* The loop of add_emails over parsed_entries: data and added_count at its end.
AddLoop(entries, data, added_count) ==
    IF entries = <<>>
    THEN [data |-> data, added_count |-> added_count]
    ELSE LET r == add_email_entry(Head(entries), data)
         IN  AddLoop(Tail(entries), r.data,
                     IF r.ret THEN added_count + 1 ELSE added_count)

RECURSIVE ScanEntries_CaseSensitive(_, _, _)
\* ScanEntries comparing the stored address as spelled.
ScanEntries_CaseSensitive(emails, email, i) ==
    IF i > Len(emails)
    THEN 0
    ELSE IF emails[i].email = email
         THEN i
         ELSE ScanEntries_CaseSensitive(emails, email, i + 1)

RECURSIVE ScanEntries(_, _, _)
\* The inner loop of remove_email: index of the first entry of the batch
\* whose lower-cased email equals email, 0 when the batch has none.
ScanEntries(emails, email, i) ==
    IF i > Len(emails)
    THEN 0
    ELSE IF Lower(emails[i].email) = email
         THEN i
         ELSE ScanEntries(emails, email, i + 1)

\* list.pop taking out the element after the one found.
Pop_Following(s, i) == SubSeq(s, 1, i) \o SubSeq(s, i + 2, Len(s))

\* list.pop(i)
Pop(s, i) == SubSeq(s, 1, i - 1) \o SubSeq(s, i + 1, Len(s))

RECURSIVE ScanBatches(_, _, _)
\* The outer loop of remove_email from batch b on: email_found and the
\* batches after the pop.
ScanBatches(bs, email, b) ==
    IF b > Len(bs)
    THEN [email_found |-> FALSE, batches |-> bs]
    ELSE LET i == ScanEntries(bs[b].emails, email, 1)
         IN  IF i > 0
             THEN [email_found |-> TRUE,
                   batches |-> [bs EXCEPT ![b].emails = Pop(@, i)]]
             ELSE ScanBatches(bs, email, b + 1)

\* remove_email keeping the batches it emptied.
DropEmptyBatches_Skipped(bs) == bs

\* remove_email: "Remove any empty batches".
DropEmptyBatches(bs) == SelectSeq(bs, LAMBDA batch : batch.emails # <<>>)

\* remove_email keeping the ids the batches had.
Renumber_Skipped(bs) == bs

\* remove_email: "Renumber batch IDs to ensure they are consecutive".
Renumber(bs) == [i \in DOMAIN bs |-> [bs[i] EXCEPT !.id = i]]

RECURSIVE OptimizeLoop_OffByOne(_, _, _, _)
\* OptimizeLoop closing a batch only once it holds more than max_per_batch.
OptimizeLoop_OffByOne(all_emails, optimized_batches, current_batch, max_per_batch) ==
    IF all_emails = <<>>
    THEN IF current_batch # <<>>
         THEN Append(optimized_batches,
                     [id |-> Len(optimized_batches) + 1, emails |-> current_batch])
         ELSE optimized_batches
    ELSE IF Len(current_batch) > max_per_batch
         THEN OptimizeLoop_OffByOne(Tail(all_emails),
                                    Append(optimized_batches,
                                           [id |-> Len(optimized_batches) + 1,
                                            emails |-> current_batch]),
                                    <<Head(all_emails)>>, max_per_batch)
         ELSE OptimizeLoop_OffByOne(Tail(all_emails), optimized_batches,
                                    Append(current_batch, Head(all_emails)),
                                    max_per_batch)

RECURSIVE OptimizeLoop(_, _, _, _)
\* The chunking loop of optimize_batches and the flush of the last batch.
OptimizeLoop(all_emails, optimized_batches, current_batch, max_per_batch) ==
    IF all_emails = <<>>
    THEN IF current_batch # <<>>
         THEN Append(optimized_batches,
                     [id |-> Len(optimized_batches) + 1, emails |-> current_batch])
         ELSE optimized_batches
    ELSE IF Len(current_batch) >= max_per_batch
         THEN OptimizeLoop(Tail(all_emails),
                           Append(optimized_batches,
                                  [id |-> Len(optimized_batches) + 1,
                                   emails |-> current_batch]),
                           <<Head(all_emails)>>, max_per_batch)
         ELSE OptimizeLoop(Tail(all_emails), optimized_batches,
                           Append(current_batch, Head(all_emails)), max_per_batch)

\* optimize_batches(data, max_per_batch)
optimize_batches(data, max_per_batch) ==
    [data EXCEPT !.batches = OptimizeLoop(Flatten(data.batches), <<>>, <<>>,
                                          max_per_batch)]

RECURSIVE AttachLoop(_, _, _, _)
\* The loop of attach_entries_to_database: data, added and skipped at its end.
AttachLoop(entries, data, added, skipped) ==
    IF entries = <<>>
    THEN [data |-> data, added |-> added, skipped |-> skipped]
    ELSE LET entry == Head(entries)
             n == Len(data.batches)
         IN  IF is_email_exists(entry.email, data)
             THEN AttachLoop(Tail(entries), data, added, skipped + 1)
             ELSE IF n > 0 /\ Len(data.batches[n].emails) < MAX_EMAILS_PER_BATCH
                  THEN AttachLoop(Tail(entries),
                                  [data EXCEPT !.batches[n].emails = Append(@, entry)],
                                  added + 1, skipped)
                  ELSE AttachLoop(Tail(entries),
                                  [data EXCEPT !.batches =
                                      Append(@, [id |-> n + 1, emails |-> <<entry>>])],
                                  added + 1, skipped)

\* Lists build_entries can return to the import: not empty, no address
\* twice (compared in lower case).
StudentLists ==
    { s \in SeqUpTo(StudentEntries, Cardinality(StudentEntries)) :
        /\ s # <<>>
        /\ \A i, j \in DOMAIN s : i # j => Lower(s[i].email) # Lower(s[j].email) }

\* write_mailing_list(data, path) when the write succeeds: the file's content.
write_mailing_list(data, now) == [data EXCEPT !.last_modified = now]

\* add_emails writing the file whatever added_count is.
add_emails_AlwaysWrites(parsed_entries, data, now) ==
    IF parsed_entries = <<>>
    THEN [ret |-> FALSE, wrote |-> FALSE, file |-> data, added |-> 0, skipped |-> 0]
    ELSE LET r == AddLoop(parsed_entries, data, 0)
         IN  [ret |-> r.added_count > 0, wrote |-> TRUE,
              file |-> write_mailing_list(r.data, now),
              added |-> r.added_count,
              skipped |-> Len(parsed_entries) - r.added_count]

\* add_emails(entries_str, path) from the parsed entries on: the return
\* value, whether the file was written, the file's content afterwards,
\* added_count and the number of entries add_email_entry refused.
add_emails(parsed_entries, data, now) ==
    IF parsed_entries = <<>>
    THEN [ret |-> FALSE, wrote |-> FALSE, file |-> data, added |-> 0, skipped |-> 0]
    ELSE LET r == AddLoop(parsed_entries, data, 0)
             skipped == Len(parsed_entries) - r.added_count
         IN  IF r.added_count > 0
             THEN [ret |-> TRUE, wrote |-> TRUE,
                   file |-> write_mailing_list(r.data, now),
                   added |-> r.added_count, skipped |-> skipped]
             ELSE [ret |-> FALSE, wrote |-> FALSE, file |-> data,
                   added |-> 0, skipped |-> skipped]

\* remove_email saving the file before it looks at email_found.
remove_email_WritesFirst(email, data, now) ==
    LET r == ScanBatches(data.batches, Lower(email), 1)
        file == write_mailing_list(
                    [data EXCEPT !.batches = Renumber(DropEmptyBatches(r.batches))], now)
    IN  [ret |-> r.email_found, wrote |-> TRUE, file |-> file]

\* remove_email(email, path): the return value, whether the file was written
\* and the file's content afterwards.
remove_email(email, data, now) ==
    LET r == ScanBatches(data.batches, Lower(email), 1)
    IN  IF ~r.email_found
        THEN [ret |-> FALSE, wrote |-> FALSE, file |-> data]
        ELSE [ret |-> TRUE, wrote |-> TRUE,
              file |-> write_mailing_list(
                          [data EXCEPT !.batches = Renumber(DropEmptyBatches(r.batches))],
                          now)]

\* optimize_command(path)
optimize_command(data, now) ==
    LET optimized_data == optimize_batches(data, DEFAULT_MAX_PER_BATCH)
    IN  [ret |-> TRUE, wrote |-> TRUE, file |-> write_mailing_list(optimized_data, now)]

\* attach_entries_to_database(entries, database_path) of the import script;
\* it returns the pair (added, skipped).
attach_entries_to_database(entries, data, now) ==
    LET r == AttachLoop(entries, data, 0, 0)
    IN  IF r.added > 0
        THEN [added |-> r.added, skipped |-> r.skipped, wrote |-> TRUE,
              file |-> write_mailing_list(r.data, now)]
        ELSE [added |-> r.added, skipped |-> r.skipped, wrote |-> FALSE,
              file |-> data]

\* ----------------------------------------------------------------- actions
\* read_mailing_list(path) on the existing database file.
read_mailing_list == [batches |-> batches, last_modified |-> last_modified]

\* No command has run since the last one exited.
NoOp == [name |-> "none", entries |-> <<>>, email |-> NoText, ret |-> FALSE,
         wrote |-> FALSE, added |-> 0, skipped |-> 0]

NoFile == [batches |-> <<>>, last_modified |-> 0]

\* DATABASE_FOLDER with no file in it.
EmptyFolder == [file \in {} |-> {}]

\* No concurrent command is running.
NoProcs == <<>>

\* No parsing function is under observation.
NoCall == [fn |-> "none", arg |-> <<>>, done |-> FALSE, result |-> <<>>]

\* One command, run from start to exit status: the file's new content, and
\* for the observer the command's inputs and outcome and the file it read.
Command(file, report) ==
    /\ op = NoOp
    /\ batches' = file.batches
    /\ last_modified' = file.last_modified
    /\ op' = report
    /\ pre' = read_mailing_list
    /\ UNCHANGED <<today, call, dbase, procs>>

\* State after create_new_database, on the day of creation.
Init ==
    /\ batches = <<>>
    /\ last_modified = 0
    /\ today = 0
    /\ op = NoOp
    /\ pre = NoFile
    /\ dbase = EmptyFolder
    /\ procs = NoProcs
    /\ call = NoCall

\* The calendar date advances between two commands.
Tick ==
    /\ op = NoOp
    /\ today < MaxDay
    /\ today' = today + 1
    /\ UNCHANGED <<batches, last_modified, op, pre, call, dbase, procs>>

\* The command's process exits; the next command starts from the file alone.
Exit ==
    /\ op # NoOp
    /\ op' = NoOp
    /\ pre' = NoFile
    /\ UNCHANGED <<batches, last_modified, today, call, dbase, procs>>

\* The add command: add_emails on the active database.
AddEmails(parsed_entries) ==
    LET r == add_emails(parsed_entries, read_mailing_list, today)
    IN  Command(r.file, [NoOp EXCEPT !.name = "add", !.entries = parsed_entries,
                                     !.ret = r.ret, !.wrote = r.wrote,
                                     !.added = r.added, !.skipped = r.skipped])

\* The rem command: remove_email on the active database.
RemoveEmail(email) ==
    LET r == remove_email(email, read_mailing_list, today)
    IN  Command(r.file, [NoOp EXCEPT !.name = "rem", !.email = email,
                                     !.ret = r.ret, !.wrote = r.wrote])

\* The optimize command.
OptimizeCommand ==
    LET r == optimize_command(read_mailing_list, today)
    IN  Command(r.file, [NoOp EXCEPT !.name = "optimize", !.ret = r.ret,
                                     !.wrote = r.wrote])

\* The spreadsheet import: attach_entries_to_database on the active database.
ImportStudents(entries) ==
    LET r == attach_entries_to_database(entries, read_mailing_list, today)
    IN  Command(r.file, [NoOp EXCEPT !.name = "import", !.entries = entries,
                                     !.ret = TRUE, !.wrote = r.wrote,
                                     !.added = r.added, !.skipped = r.skipped])

Next ==
    \/ Tick
    \/ Exit
    \/ \E parsed_entries \in AddLists : AddEmails(parsed_entries)
    \/ \E email \in RemoveArgs : RemoveEmail(email)
    \/ OptimizeCommand
    \/ \E entries \in StudentLists : ImportStudents(entries)

Spec == Init /\ [][Next]_vars

\* ------------------------------------------- inserts into a new database
\* Entries handed to add one at a time; with the import's they carry five
\* different addresses.
InsertEntries ==
    ParsedEntries \cup { ParsedEntry(Email_8, NoText, NoText, NoText, NoText),
                         ParsedEntry(Email_z, NoText, NoText, NoText, NoText) }

\* A database that is only added to and optimized after its creation.
InsertNext ==
    \/ Exit
    \/ \E entry \in InsertEntries : AddEmails(<<entry>>)
    \/ \E entries \in StudentLists : ImportStudents(entries)
    \/ OptimizeCommand

InsertSpec == Init /\ [][InsertNext]_vars

\* ------------------------------------------------------- the tokenizer alone
\* Characters of the texts the tokenizer is given.
TokenChars == { "<", ">", ";", "a", " " }

\* Every text of at most MaxText characters over TokenChars.
Texts == SeqUpTo(TokenChars, MaxText)

TokInit ==
    /\ batches = <<>>
    /\ last_modified = 0
    /\ today = 0
    /\ op = NoOp
    /\ pre = NoFile
    /\ dbase = EmptyFolder
    /\ procs = NoProcs
    /\ call \in { [NoCall EXCEPT !.fn = "tokenize", !.arg = text] : text \in Texts }

\* Step 1 of parse_email_entries runs on the text.
RunTokenize ==
    /\ call.fn = "tokenize"
    /\ ~call.done
    /\ call' = [call EXCEPT !.done = TRUE, !.result = Tokenize(call.arg)]
    /\ UNCHANGED <<batches, last_modified, today, op, pre, dbase, procs>>

TokSpec == TokInit /\ [][RunTokenize]_vars

\* ------------------------------------------------------ parse_name alone
\* Characters of the names parse_name is given.
NameChars == { "A", " ", "\t", "\"" }

\* The names parse_email_entries can pass to parse_name: texts of at most
\* MaxName characters with the spaces and quotes at their ends stripped.
Names == { Strip(text, QuoteChars) : text \in SeqUpTo(NameChars, MaxName) }

NameInit ==
    /\ batches = <<>>
    /\ last_modified = 0
    /\ today = 0
    /\ op = NoOp
    /\ pre = NoFile
    /\ dbase = EmptyFolder
    /\ procs = NoProcs
    /\ call \in { [NoCall EXCEPT !.fn = "parse_name", !.arg = name] : name \in Names }

\* parse_name runs on the name.
RunParseName ==
    /\ call.fn = "parse_name"
    /\ ~call.done
    /\ call' = [call EXCEPT !.done = TRUE, !.result = parse_name(call.arg)]
    /\ UNCHANGED <<batches, last_modified, today, op, pre, dbase, procs>>

NameSpec == NameInit /\ [][RunParseName]_vars

\* ------------------------------------------- the add command's arguments
Text_plain == Email_a
Text_angle == <<"<">> \o Email_b \o <<">">>
Text_named == <<"\"", "J", " ", "Q", ".", " ", "D", "\"", " ", "<">> \o Email_a \o <<">">>
Text_word == <<"J", " ", "<">> \o Email_b \o <<">">>
Text_noTld == <<"a", "@", "1">>
Text_inner == <<"<", "a", ";">> \o Email_b \o <<">">>
Text_tab == <<"\"", "\t", "\"", " ", "<">> \o Email_b \o <<">">>
Text_blank == <<" ">>

\* Fragments a user types: the three formats, two texts of no format, a
\* quoted name that is one tab, and a blank.
Fragments ==
    { Text_plain, Text_angle, Text_named, Text_word, Text_noTld, Text_inner,
      Text_tab, Text_blank }

\* The fragments of fs with ";" between two neighbours, as one argument.
OneArgument(fs) == << Join(<<";">>, fs) >>

\* The fragments of fs as one argument each, every one followed by ";".
ArgumentEach(fs) == [i \in DOMAIN fs |-> fs[i] \o <<";">>]

\* args.args of the add command: one to MaxFragments fragments.
ArgLists ==
    LET lists == SeqUpTo(Fragments, MaxFragments) \ { <<>> }
    IN  { OneArgument(fs) : fs \in lists } \cup { ArgumentEach(fs) : fs \in lists }

\* The add command run on its arguments: parse_email_entries, whose
\* exception ends the process, then the loop and the save of add_emails.
AddCommandLine(args_list) ==
    LET parsed == parse_email_entries(args_list)
        r == add_emails(parsed.entries, read_mailing_list, today)
    IN  /\ op = NoOp
        /\ call' = [fn |-> "parse_email_entries", arg |-> args_list, done |-> TRUE,
                     result |-> parsed]
        /\ pre' = read_mailing_list
        /\ UNCHANGED <<today, dbase, procs>>
        /\ IF parsed.raised
           THEN /\ op' = [NoOp EXCEPT !.name = "add"]
                /\ UNCHANGED <<batches, last_modified>>
           ELSE /\ op' = [NoOp EXCEPT !.name = "add", !.entries = parsed.entries,
                                      !.ret = r.ret, !.wrote = r.wrote,
                                      !.added = r.added, !.skipped = r.skipped]
                /\ batches' = r.file.batches
                /\ last_modified' = r.file.last_modified

\* The add command's process is gone.
ExitCommandLine ==
    /\ op # NoOp
    /\ op' = NoOp
    /\ pre' = NoFile
    /\ call' = NoCall
    /\ UNCHANGED <<batches, last_modified, today, dbase, procs>>

ParseNext ==
    \/ ExitCommandLine
    \/ \E args_list \in ArgLists : AddCommandLine(args_list)

ParseSpec == Init /\ [][ParseNext]_vars

\* ------------------------------------------------------ the database folder
\* The ".json" extension of a database file.
DotJson == <<".", "j", "s", "o", "n">>

DEFAULT_DATABASE_NAME == <<"M", "a", "i", "l", "i", "n", "g", "L", "i", "s", "t">>

\* f"{DEFAULT_DATABASE_NAME}.json"
DefaultFile == DEFAULT_DATABASE_NAME \o DotJson

\* The file name of CONFIG_FILE inside DATABASE_FOLDER.
CONFIG_FILE == <<"c", "o", "n", "f", "i", "g">> \o DotJson

\* Python's None.
None == [none |-> TRUE]

\* str.endswith(suffix)
EndsWith(s, suffix) ==
    /\ Len(s) >= Len(suffix)
    /\ SubSeq(s, Len(s) - Len(suffix) + 1, Len(s)) = suffix

\* os.path.basename(path): what follows the last "/".
Basename(path) ==
    LET slashes == { i \in DOMAIN path : path[i] = "/" }
    IN  IF slashes = {}
        THEN path
        ELSE SubSeq(path, (CHOOSE i \in slashes : \A j \in slashes : j <= i) + 1,
                    Len(path))

\* os.path.basename(db_name.strip())
safe_db_name(db_name) == Basename(Strip(db_name, Whitespace))

\* The name with ".json" added unless it ends with it.
db_filename(safe) == IF EndsWith(safe, DotJson) THEN safe ELSE safe \o DotJson

\* os.path.exists(os.path.join(DATABASE_FOLDER, file))
Exists(folder, file) == file \in DOMAIN folder

\* open(path, "w") and json.dump(content, f) completed.
WriteFile(folder, file, content) ==
    [f \in DOMAIN folder \cup {file} |-> IF f = file THEN content ELSE folder[f]]

\* os.remove(path)
RemoveFile(folder, file) == [f \in DOMAIN folder \ {file} |-> folder[f]]

\* dict[key] = value
SetKey(dict, key, value) ==
    [k \in DOMAIN dict \cup {key} |-> IF k = key THEN value ELSE dict[k]]

\* {"active_database": f"{DEFAULT_DATABASE_NAME}.json"}
DefaultConfig == [active_database |-> DefaultFile]

\* get_config(): the content of the configuration file, the default
\* configuration when it cannot be read.
get_config(folder) ==
    IF Exists(folder, CONFIG_FILE) THEN folder[CONFIG_FILE] ELSE DefaultConfig

\* ensure_config_exists(): the configuration, and the folder with the
\* configuration file written if it was missing.
ensure_config_exists(folder) ==
    IF ~Exists(folder, CONFIG_FILE)
    THEN [folder |-> WriteFile(folder, CONFIG_FILE, DefaultConfig),
          config |-> DefaultConfig]
    ELSE [folder |-> folder, config |-> get_config(folder)]

\* get_active_database_path creating the active database when its file is
\* missing.
get_active_database_path_CreatesFile(folder) ==
    LET c == ensure_config_exists(folder)
        active_db == IF "active_database" \in DOMAIN c.config
                     THEN c.config.active_database
                     ELSE DefaultFile
        db_path == Basename(active_db)
    IN  [folder |-> IF Exists(c.folder, db_path)
                    THEN c.folder
                    ELSE WriteFile(c.folder, db_path,
                                   [name |-> db_path, created |-> 0,
                                    last_modified |-> 0, batches |-> <<>>]),
         db_path |-> db_path]

\* get_active_database_path(): the active database's file name, and the
\* folder as ensure_config_exists leaves it.
get_active_database_path(folder) ==
    LET c == ensure_config_exists(folder)
        active_db == IF "active_database" \in DOMAIN c.config
                     THEN c.config.active_database
                     ELSE DefaultFile
    IN  [folder |-> c.folder, db_path |-> Basename(active_db)]

\* What a file holds when a write to it stopped part-way: a prefix of the
\* JSON text, which json.load rejects.
Truncated == [truncated |-> TRUE]

\* What a file holds between open(path, "w") and the first byte written.
Emptied == [emptied |-> TRUE]

\* What a file holds when a shorter JSON text was written over a longer one
\* that was not truncated first: the shorter text and the end of the longer.
Garbled == [garbled |-> TRUE]

\* load_database(db_path) and read_mailing_list(database_path): the file's
\* content, None when the file does not exist or json.load raises.
load_database(folder, db_path) ==
    IF ~Exists(folder, db_path) \/ folder[db_path] \in { Truncated, Emptied, Garbled }
    THEN None
    ELSE folder[db_path]

\* strftime("%Y-%m-%d %H:%M:%S"): the day with the time of day.
DateTime(now) == <<now, "H:M:S">>

\* create_new_database writing over a file that exists.
create_new_database_Overwrites(db_name, folder, now) ==
    LET safe == safe_db_name(db_name)
        now_str == DateTime(now)
    IN  IF safe = <<>>
        THEN [ret |-> "False", folder |-> folder]
        ELSE [ret |-> "True",
              folder |-> WriteFile(folder, db_filename(safe),
                                   [name |-> safe, created |-> now_str,
                                    last_modified |-> now_str, batches |-> <<>>])]

\* create_new_database(db_name): the return value and the folder afterwards.
create_new_database(db_name, folder, now) ==
    LET safe == safe_db_name(db_name)
        file == db_filename(safe)
        now_str == DateTime(now)
    IN  IF safe = <<>>
        THEN [ret |-> "False", folder |-> folder]
        ELSE IF Exists(folder, file)
        THEN [ret |-> "False", folder |-> folder]
        ELSE [ret |-> "True",
              folder |-> WriteFile(folder, file,
                                   [name |-> safe, created |-> now_str,
                                    last_modified |-> now_str, batches |-> <<>>])]

\* The end of input at the confirmation prompt (EOFError).
EndOfInput == <<"EOF">>

\* delete_database(db_name) with the answer typed at its prompt.
delete_database(db_name, answer, folder, now) ==
    LET safe == safe_db_name(db_name)
        file == db_filename(safe)
    IN  IF safe = <<>> \/ ~Exists(folder, file)
        THEN [ret |-> "False", folder |-> folder]
        ELSE IF answer = EndOfInput
                \/ Lower(Strip(answer, Whitespace)) # <<"y", "e", "s">>
        THEN [ret |-> "False", folder |-> folder]
        ELSE LET removed == RemoveFile(folder, file)
                 config == get_config(removed)
             IN  IF "active_database" \in DOMAIN config
                    /\ config.active_database = file
                 THEN LET created ==
                              IF ~Exists(removed, DefaultFile)
                              THEN create_new_database(DEFAULT_DATABASE_NAME,
                                                       removed, now).folder
                              ELSE removed
                      IN  [ret |-> "True",
                           folder |-> WriteFile(created, CONFIG_FILE,
                                                SetKey(config, "active_database",
                                                       DefaultFile))]
                 ELSE [ret |-> "True", folder |-> removed]

\* activate_database creating the database it is asked for when it is missing.
activate_database_CreatesMissing(db_name, folder) ==
    LET safe == safe_db_name(db_name)
        file == db_filename(safe)
    IN  IF safe = <<>>
        THEN [ret |-> "False", folder |-> folder]
        ELSE LET made == create_new_database(db_name, folder, 0).folder
                 c == ensure_config_exists(made)
             IN  [ret |-> "True",
                  folder |-> WriteFile(c.folder, CONFIG_FILE,
                                       SetKey(c.config, "active_database", file))]

\* activate_database(db_name)
activate_database(db_name, folder) ==
    LET safe == safe_db_name(db_name)
        file == db_filename(safe)
    IN  IF safe = <<>> \/ ~Exists(folder, file)
        THEN [ret |-> "False", folder |-> folder]
        ELSE LET c == ensure_config_exists(folder)
             IN  [ret |-> "True",
                  folder |-> WriteFile(c.folder, CONFIG_FILE,
                                       SetKey(c.config, "active_database", file))]

\* The commands of main that only read the active database.
ReadCommands == { "print", "batches", "stat", "check" }

\* Where write_mailing_list may fail: nowhere, at open(path, "w"), which
\* leaves the file alone, or in json.dump, after open has emptied the file.
Faults == { "none", "open", "dump" }

\* A command that ends with "if write_mailing_list(...): return True" and
\* "return False", when its write meets the fault: r is the command without
\* fault, data what it read.
WithFault(r, data, fault) ==
    IF ~r.wrote \/ fault = "none"
    THEN r
    ELSE [r EXCEPT !.ret = FALSE,
                   !.wrote = (fault = "dump"),
                   !.file = IF fault = "open" THEN data ELSE Truncated]

\* A command as main dispatches it: its name, its argument, the time it runs
\* at and the fault its write meets.
Dispatched(name, input, now, fault) ==
    [name |-> name, input |-> input, now |-> now, fault |-> fault]

\* The rest of a command once the data is loaded: the function main calls
\* for it. The reading commands only print; the import always goes on.
CommandBody(command, data) ==
    LET r == CASE command.name \in ReadCommands ->
                      [ret |-> TRUE, wrote |-> FALSE, file |-> data]
               [] command.name = "add" ->
                      add_emails(command.input, data, command.now)
               [] command.name = "rem" ->
                      remove_email(command.input, data, command.now)
               [] command.name = "optimize" ->
                      optimize_command(data, command.now)
               [] command.name = "import" ->
                      LET a == attach_entries_to_database(command.input, data,
                                                          command.now)
                      IN  [ret |-> TRUE, wrote |-> a.wrote, file |-> a.file,
                           added |-> a.added, skipped |-> a.skipped]
    IN  WithFault(r, data, command.fault)

\* A command on the active database, from get_active_database_path and the
\* read to its return: what it read, whether it reported the file missing,
\* whether a KeyError ended it, what its body returned and the folder it
\* leaves.
RunOnActive(folder, command) ==
    LET a == get_active_database_path(folder)
        data == load_database(a.folder, a.db_path)
    IN  IF data = None
        THEN [ret |-> "False", data |-> None, reported |-> TRUE, raised |-> FALSE,
              db_path |-> a.db_path, body |-> None, folder |-> a.folder]
        ELSE IF "batches" \notin DOMAIN data
        THEN [ret |-> "None", data |-> data, reported |-> FALSE, raised |-> TRUE,
              db_path |-> a.db_path, body |-> None, folder |-> a.folder]
        ELSE LET r == CommandBody(command, data)
             IN  [ret |-> IF r.ret THEN "True" ELSE "False", data |-> data,
                  reported |-> FALSE, raised |-> FALSE, db_path |-> a.db_path,
                  body |-> r,
                  folder |-> IF r.wrote
                             THEN WriteFile(a.folder, a.db_path, r.file)
                             ELSE a.folder]

\* print, batches, stat and check: read_mailing_list or load_database, then
\* output only. show_statistics returns a boolean, the others nothing; the
\* batches command reads "batches" with dict.get and cannot raise.
read_command(which, folder) ==
    LET r == RunOnActive(folder, Dispatched(which, <<>>, 0, "none"))
    IN  [r EXCEPT !.ret = IF which = "stat" /\ ~r.raised THEN r.ret ELSE "None",
                  !.raised = r.raised /\ which # "batches"]

\* The add branch of main: it returns when the active database's file does
\* not exist, and calls add_emails otherwise.
add_command(parsed_entries, folder, now) ==
    LET r == RunOnActive(folder, Dispatched("add", parsed_entries, now, "none"))
    IN  IF r.data = None THEN [r EXCEPT !.ret = "None"] ELSE r

\* The rem branch of main: remove_email(email).
rem_command(email, folder, now) ==
    RunOnActive(folder, Dispatched("rem", email, now, "none"))

\* The optimize branch of main: optimize_command().
optimize_branch(folder, now) ==
    RunOnActive(folder, Dispatched("optimize", <<>>, now, "none"))

\* --------------------------------------------- commands on the folder
\* One command on the folder, run from start to exit: the folder it leaves,
\* and for the observer its report and the folder it started from.
FolderCommand(folder, report) ==
    /\ op = NoOp
    /\ dbase' = folder
    /\ op' = report
    /\ pre' = dbase
    /\ UNCHANGED <<batches, last_modified, today, call, procs>>

\* What a command on the active database reports.
ActiveReport(name, input, r) ==
    [name |-> name, input |-> input, ret |-> r.ret, data |-> r.data,
     reported |-> r.reported, raised |-> r.raised, db_path |-> r.db_path]

\* What add and the import report besides: the counts of added and skipped
\* entries, zero when the loop did not run.
CountsReport(name, input, r) ==
    LET report == ActiveReport(name, input, r)
        ran == r.body # None
    IN  SetKey(SetKey(report, "added", IF ran THEN r.body.added ELSE 0),
               "skipped", IF ran THEN r.body.skipped ELSE 0)

\* What new, del and activate report: the file the name stands for.
FileReport(name, db_name, answer, r) ==
    [name |-> name, input |-> db_name, answer |-> answer, ret |-> r.ret,
     file |-> db_filename(safe_db_name(db_name))]

\* Names given to new, del and activate: a database W with and without
\* extension, spaces and a directory, the default database, the name of the
\* configuration file, and a blank name.
DbNameArgs ==
    { <<"W">>, <<"W">> \o DotJson, <<" ", "W", " ">>, <<"d", "/", "W">>,
      DEFAULT_DATABASE_NAME, <<"c", "o", "n", "f", "i", "g">>, <<" ">> }

\* Answers to the prompt of del.
Answers ==
    { <<"y", "e", "s">>, <<" ", "Y", "E", "S">>, <<"n", "o">>, <<>>, EndOfInput }

\* The entry the commands on the folder add, and the address they remove.
FolderEntries == { ParsedEntry(Email_a, NoText, NoText, NoText, NoText) }

FolderRemoveArgs == { Email_A }

NewDatabase(db_name) ==
    LET r == create_new_database(db_name, dbase, today)
    IN  FolderCommand(r.folder, FileReport("new", db_name, <<>>, r))

DeleteDatabase(db_name, answer) ==
    LET r == delete_database(db_name, answer, dbase, today)
    IN  FolderCommand(r.folder, FileReport("del", db_name, answer, r))

ActivateDatabase(db_name) ==
    LET r == activate_database(db_name, dbase)
    IN  FolderCommand(r.folder, FileReport("activate", db_name, <<>>, r))

ReadCommand(which) ==
    LET r == read_command(which, dbase)
    IN  FolderCommand(r.folder, ActiveReport(which, <<>>, r))

AddCommand(parsed_entries) ==
    LET r == add_command(parsed_entries, dbase, today)
    IN  FolderCommand(r.folder, CountsReport("add", parsed_entries, r))

RemCommand(email) ==
    LET r == rem_command(email, dbase, today)
    IN  FolderCommand(r.folder, ActiveReport("rem", email, r))

OptimizeBranch ==
    LET r == optimize_branch(dbase, today)
    IN  FolderCommand(r.folder, ActiveReport("optimize", <<>>, r))

\* ------------------------------------- the functions on the active database
\* dict.get(key, default)
GetKey(dict, key, default) == IF key \in DOMAIN dict THEN dict[key] ELSE default

RECURSIVE FilterNew(_, _, _, _)
\* The duplicate filter of add_emails_to_database: the entries whose address
\* is in neither the database nor an earlier entry, and the two counts.
FilterNew(emails_to_add, existing_emails_lower, newly_added_entries, skipped_count) ==
    IF emails_to_add = <<>>
    THEN [newly_added_entries |-> newly_added_entries,
          added_count |-> Len(newly_added_entries),
          skipped_count |-> skipped_count]
    ELSE LET new_entry == Head(emails_to_add)
             lowered == Lower(new_entry.email)
         IN  IF lowered \notin existing_emails_lower
             THEN FilterNew(Tail(emails_to_add), existing_emails_lower \cup {lowered},
                            Append(newly_added_entries, new_entry), skipped_count)
             ELSE FilterNew(Tail(emails_to_add), existing_emails_lower,
                            newly_added_entries, skipped_count + 1)

\* max([b.get("id", 0) for b in batches] + [0])
MaxId(bs) ==
    IF bs = <<>> THEN 0
    ELSE CHOOSE m \in { bs[i].id : i \in DOMAIN bs } :
             \A i \in DOMAIN bs : bs[i].id <= m

RECURSIVE PlaceAll(_, _)
\* The placement loop of add_emails_to_database: each entry goes to the
\* first batch with fewer than MAX_EMAILS_PER_BATCH entries, to a new batch
\* numbered one above the highest id when there is none.
PlaceAll(newly_added_entries, bs) ==
    IF newly_added_entries = <<>>
    THEN bs
    ELSE LET email_to_add == Head(newly_added_entries)
             i == FirstWithRoom(bs, 1)
         IN  PlaceAll(Tail(newly_added_entries),
                      IF i > 0
                      THEN [bs EXCEPT ![i].emails = Append(@, email_to_add)]
                      ELSE Append(bs, [id |-> MaxId(bs) + 1,
                                       emails |-> <<email_to_add>>]))

\* add_emails_to_database(emails_to_add): the return value, the folder
\* afterwards and the two counts it reports.
add_emails_to_database(emails_to_add, folder, now) ==
    IF emails_to_add = <<>>
    THEN [ret |-> "True", folder |-> folder, added |-> 0, skipped |-> 0]
    ELSE
    LET a == get_active_database_path(folder)
        missing == ~Exists(a.folder, a.db_path)
        made == IF missing /\ a.db_path = DefaultFile
                THEN create_new_database(DEFAULT_DATABASE_NAME, a.folder, now).folder
                ELSE a.folder
        db_data == load_database(made, a.db_path)
    IN  IF db_data = None
        THEN [ret |-> "False", folder |-> made, added |-> 0, skipped |-> 0]
        ELSE
        LET bs == GetKey(db_data, "batches", <<>>)
            existing_emails_lower ==
                { Lower(Flatten(bs)[i].email) : i \in DOMAIN Flatten(bs) }
            f == FilterNew(emails_to_add, existing_emails_lower, <<>>, 0)
        IN  IF f.newly_added_entries = <<>>
            THEN [ret |-> "True", folder |-> made, added |-> 0,
                  skipped |-> f.skipped_count]
            ELSE [ret |-> "True",
                  folder |-> WriteFile(made, a.db_path,
                                 SetKey(SetKey(db_data, "batches",
                                               PlaceAll(f.newly_added_entries, bs)),
                                        "last_modified", DateTime(now))),
                  added |-> f.added_count, skipped |-> f.skipped_count]

\* The search of remove_email_from_database: every batch without the entries
\* of that address.
FilterOut(bs, email_to_remove_lower) ==
    [i \in DOMAIN bs |->
        [bs[i] EXCEPT !.emails =
            SelectSeq(@, LAMBDA entry : Lower(entry.email) # email_to_remove_lower)]]

\* remove_email_from_database renumbering the batches it keeps.
KeepNonEmptied_Renumbering(bs, updated) ==
    Renumber(SelectSeq(updated, LAMBDA batch : batch.emails # <<>>))

\* The batches remove_email_from_database keeps: all but those its search
\* emptied, each with the id it had.
KeepNonEmptied(bs, updated) ==
    LET indices_of_empty_batches ==
            { i \in DOMAIN bs : bs[i].emails # <<>> /\ updated[i].emails = <<>> }
        kept(k) == Cardinality({ i \in 1..k : i \notin indices_of_empty_batches })
    IN  [n \in 1..kept(Len(bs)) |->
            updated[CHOOSE i \in DOMAIN bs :
                        i \notin indices_of_empty_batches /\ kept(i) = n]]

\* remove_email_from_database(email_to_remove)
remove_email_from_database(email_to_remove, folder, now) ==
    IF email_to_remove = <<>> \/ \A i \in DOMAIN email_to_remove : email_to_remove[i] # "@"
    THEN [ret |-> "False", folder |-> folder]
    ELSE
    LET a == get_active_database_path(folder)
        db_data == load_database(a.folder, a.db_path)
    IN  IF db_data = None
        THEN [ret |-> "False", folder |-> a.folder]
        ELSE
        LET bs == GetKey(db_data, "batches", <<>>)
            updated == FilterOut(bs, Lower(email_to_remove))
        IN  IF updated = bs
            THEN [ret |-> "False", folder |-> a.folder]
            ELSE [ret |-> "True",
                  folder |-> WriteFile(a.folder, a.db_path,
                                 SetKey(SetKey(db_data, "batches",
                                               KeepNonEmptied(bs, updated)),
                                        "last_modified", DateTime(now)))]

\* The highest batch id of the active database of a folder.
HighestId(folder) ==
    LET data == load_database(folder, get_active_database_path(folder).db_path)
    IN  IF data = None THEN 0 ELSE MaxId(GetKey(data, "batches", <<>>))

\* add_emails_to_database, as long as the batch ids stay within MaxBatchId.
AddEmailsToDatabase(emails_to_add) ==
    LET r == add_emails_to_database(emails_to_add, dbase, today)
    IN  /\ HighestId(r.folder) <= MaxBatchId
        /\ FolderCommand(r.folder,
                         [name |-> "add_emails_to_database", input |-> emails_to_add,
                          ret |-> r.ret, added |-> r.added, skipped |-> r.skipped])

RemoveEmailFromDatabase(email_to_remove) ==
    LET r == remove_email_from_database(email_to_remove, dbase, today)
    IN  FolderCommand(r.folder,
                      [name |-> "remove_email_from_database",
                       input |-> email_to_remove, ret |-> r.ret])

DbNext ==
    \/ Exit
    \/ \E db_name \in DbNameArgs : NewDatabase(db_name)
    \/ \E db_name \in DbNameArgs : \E answer \in Answers :
           DeleteDatabase(db_name, answer)
    \/ \E db_name \in DbNameArgs : ActivateDatabase(db_name)
    \/ \E which \in ReadCommands : ReadCommand(which)
    \/ \E parsed_entries \in FolderEntries : AddCommand(<<parsed_entries>>)
    \/ \E email \in FolderRemoveArgs : RemCommand(email)
    \/ OptimizeBranch
    \/ \E entry \in FolderEntries : AddEmailsToDatabase(<<entry>>)
    \/ \E email \in FolderRemoveArgs : RemoveEmailFromDatabase(email)

\* The commands of main and the two functions on the active database, on a
\* folder that starts with no file, all on one day.
DbSpec == Init /\ [][DbNext]_vars

\* ------------------------------------------------------- writes that fail
\* What a command reports when its write could fail.
FaultReport(name, input, fault, r, attempted) ==
    [name |-> name, input |-> input, fault |-> fault, ret |-> r.ret,
     data |-> r.data, attempted |-> attempted, db_path |-> r.db_path]

\* Whether the command, on what it reads, comes to its write.
Attempted(folder, command) ==
    LET a == get_active_database_path(folder)
        data == load_database(a.folder, a.db_path)
    IN  data # None /\ CommandBody([command EXCEPT !.fault = "none"], data).wrote

\* A writing command whose write meets the fault.
FaultyCommand(name, input, fault) ==
    LET command == Dispatched(name, input, today, fault)
        r == RunOnActive(dbase, command)
    IN  FolderCommand(r.folder,
            FaultReport(name, input, fault, r, Attempted(dbase, command)))

FaultyAdd(parsed_entries, fault) == FaultyCommand("add", parsed_entries, fault)

FaultyRemove(email, fault) == FaultyCommand("rem", email, fault)

FaultyOptimize(fault) == FaultyCommand("optimize", <<>>, fault)

\* The entries added while writes may fail.
FaultEntries ==
    { ParsedEntry(email, NoText, NoText, NoText, NoText) :
          email \in { Email_a, Email_B, Email_7 } }

\* The default database has been created and is the active one.
CreatedInit ==
    /\ batches = <<>>
    /\ last_modified = 0
    /\ today = 0
    /\ op = NoOp
    /\ pre = NoFile
    /\ call = NoCall
    /\ procs = NoProcs
    /\ dbase = create_new_database(DEFAULT_DATABASE_NAME,
                                   ensure_config_exists(EmptyFolder).folder, 0).folder

FaultNext ==
    \/ Tick
    \/ Exit
    \/ \E entry \in FaultEntries : \E fault \in Faults : FaultyAdd(<<entry>>, fault)
    \/ \E email \in RemoveArgs : \E fault \in Faults : FaultyRemove(email, fault)
    \/ \E fault \in Faults : FaultyOptimize(fault)

FaultSpec == CreatedInit /\ [][FaultNext]_vars

\* --------------------------------------- adds and removes on one database
\* The import script's attach_entries_to_database on the active database;
\* it exits with an error when the read gives nothing.
import_command(entries, folder, now) ==
    RunOnActive(folder, Dispatched("import", entries, now, "none"))

ImportCommand(entries) ==
    LET r == import_command(entries, dbase, today)
    IN  FolderCommand(r.folder, CountsReport("import", entries, r))

\* Entries given to the adds: three addresses, one of them in two spellings
\* and with a name.
FunctionEntries ==
    { ParsedEntry(Email_a, NoText, NoText, NoText, NoText),
      ParsedEntry(Email_A, <<"J", " ", "D">>, <<"J">>, NoText, <<"D">>),
      ParsedEntry(Email_b, NoText, NoText, NoText, NoText) }

\* Lists of entries given to one add: no entry twice.
FunctionLists ==
    { s \in SeqUpTo(FunctionEntries, MaxAdd) : \A i, j \in DOMAIN s : i # j => s[i] # s[j] }

\* Lists the import attaches: a student the adds know under another
\* spelling, and one they do not know.
FunctionStudentLists ==
    LET students == { StudentEntry(Email_B, <<"K">>, <<"K">>, NoText, NoText),
                      StudentEntry(Email_7U, <<"L">>, <<"L">>, NoText, NoText) }
    IN  { s \in SeqUpTo(students, 2) :
            s # <<>> /\ \A i, j \in DOMAIN s : i # j => s[i] # s[j] }

\* Addresses given to remove_email_from_database.
FunctionRemoveArgs == { Email_A, Email_b, Email_7 }

\* The three ways of adding and remove_email_from_database, on the default
\* database once created.
FunctionsNext ==
    \/ Exit
    \/ \E parsed_entries \in FunctionLists : AddCommand(parsed_entries)
    \/ \E entries \in FunctionStudentLists : ImportCommand(entries)
    \/ \E emails_to_add \in FunctionLists : AddEmailsToDatabase(emails_to_add)
    \/ \E email \in FunctionRemoveArgs : RemoveEmailFromDatabase(email)

FunctionsSpec == CreatedInit /\ [][FunctionsNext]_vars

\* --------------------------------------------------- two commands at once
\* The characters json.dump writes as a two-character escape.
Escaped == { "\"", "\\", "\t", "\n", "\r" }

\* Length of the JSON text of a string.
JsonString(s) == Len(s) + Cardinality({ i \in DOMAIN s : s[i] \in Escaped }) + 2

\* Length of the JSON text of a batch id.
JsonInt(n) == IF n < 10 THEN 1 ELSE IF n < 100 THEN 2 ELSE 3

RECURSIVE SumOf(_)
SumOf(sizes) == IF sizes = <<>> THEN 0 ELSE Head(sizes) + SumOf(Tail(sizes))

\* Length of the text json.dump(..., indent=2) writes for a list or a dict
\* whose closing bracket is indented by 2 * depth, from the lengths of its
\* items: each on a line of its own, a comma between two.
JsonBlock(sizes, depth) ==
    IF sizes = <<>>
    THEN 2
    ELSE 1 + SumOf([i \in DOMAIN sizes |-> 1 + 2 * (depth + 1) + sizes[i]])
           + (Len(sizes) - 1) + 1 + 2 * depth + 1

\* Length of one item of a dict: "key": value
JsonMember(key, size) == Len(key) + 2 + 2 + size

\* The keys of a stored entry.
EntryKeys == <<"email", "name", "full_entry", "first_name", "middle_names", "last_name">>

\* Length of the JSON text of the database as write_mailing_list dumps it:
\* "created" a date with the time of day, "last_modified" a date.
FileSize(data) ==
    LET EntrySize(entry) ==
            JsonBlock([k \in DOMAIN EntryKeys |->
                          JsonMember(EntryKeys[k], JsonString(entry[EntryKeys[k]]))], 4)
        BatchSize(batch) ==
            JsonBlock(<< JsonMember("id", JsonInt(batch.id)),
                         JsonMember("emails",
                             JsonBlock([j \in DOMAIN batch.emails |->
                                           EntrySize(batch.emails[j])], 3)) >>, 2)
    IN  JsonBlock(<< JsonMember("name", JsonString(data.name)),
                     JsonMember("created", 19 + 2),
                     JsonMember("last_modified", 10 + 2),
                     JsonMember("batches",
                         JsonBlock([i \in DOMAIN data.batches |->
                                       BatchSize(data.batches[i])], 1)) >>, 0)

\* json.dump keeping what the file holds when the file is not empty.
Dump_KeepsExisting(existing, data) ==
    IF existing = Emptied THEN data ELSE existing

\* json.dump and close on a file opened with "w": the text goes to offset 0.
\* It is all the file holds, unless another process wrote a longer text
\* since the open, whose end then follows it.
Dump(existing, data) ==
    IF existing = Emptied
    THEN data
    ELSE IF existing = Garbled \/ FileSize(existing) > FileSize(data)
    THEN Garbled
    ELSE data

\* The two invocations.
Procs == { 1, 2 }

Other(p) == 3 - p

\* An invocation that has not started.
Idle ==
    [pc |-> "idle", name |-> "none", input |-> <<>>, data |-> None,
     result |-> None, ret |-> "None", raced |-> FALSE, overlapped |-> FALSE,
     rank |-> 0]

\* The entries the two invocations add, one of them the longer to write.
RaceEntries ==
    { ParsedEntry(Email_a, NoText, NoText, NoText, NoText),
      ParsedEntry(Email_b, <<"J", " ", "D">>, <<"J">>, NoText, <<"D">>) }

\* The mutating commands an invocation can be.
RaceCommands ==
    { [name |-> "add", input |-> <<entry>>] : entry \in RaceEntries }
        \cup { [name |-> "rem", input |-> email] : email \in { Email_A, Email_B } }
        \cup { [name |-> "optimize", input |-> <<>>] }

\* What the command does with the data it has read.
RaceBody(cmd, data, now) ==
    CASE cmd.name = "add" -> add_emails(cmd.input, data, now)
      [] cmd.name = "rem" -> remove_email(cmd.input, data, now)
      [] cmd.name = "optimize" -> optimize_command(data, now)

\* A step of one invocation; the other and the rest of the state stay.
ProcStep(p, proc, folder) ==
    /\ procs' = [procs EXCEPT ![p] = proc]
    /\ dbase' = folder
    /\ UNCHANGED <<batches, last_modified, today, op, pre, call>>

\* The invocation starts: it reads the database and works on what it read.
\* It ends here when the read fails or the command has nothing to write.
ReadStep(p, cmd) ==
    LET a == get_active_database_path(dbase)
        data == load_database(a.folder, a.db_path)
        started == [Idle EXCEPT !.name = cmd.name, !.input = cmd.input, !.data = data]
    IN  /\ procs[p].pc = "idle"
        /\ IF data = None
           THEN ProcStep(p, [started EXCEPT !.pc = "done", !.ret = "False"], a.folder)
           ELSE LET r == RaceBody(cmd, data, today)
                IN  IF r.wrote
                    THEN ProcStep(p, [started EXCEPT !.pc = "read", !.result = r.file],
                                  a.folder)
                    ELSE ProcStep(p, [started EXCEPT !.pc = "done", !.ret = "False"],
                                  a.folder)

\* write_mailing_list reaches open(path, "w"): the file is emptied.
OpenStep(p) ==
    /\ procs[p].pc = "read"
    /\ ProcStep(p, [procs[p] EXCEPT !.pc = "opened",
                                     !.raced = procs[Other(p)].pc = "read",
                                     !.overlapped = procs[Other(p)].pc = "opened"],
                WriteFile(dbase, DefaultFile, Emptied))

\* json.dump and the close: the text is written, the command returns True.
DumpStep(p) ==
    /\ procs[p].pc = "opened"
    /\ ProcStep(p, [procs[p] EXCEPT !.pc = "done", !.ret = "True",
                                     !.rank = IF procs[Other(p)].rank > 0 THEN 2 ELSE 1],
                WriteFile(dbase, DefaultFile, Dump(dbase[DefaultFile], procs[p].result)))

\* Both invocations have exited.
BothExit ==
    /\ \A p \in Procs : procs[p].pc = "done"
    /\ procs' = [p \in Procs |-> Idle]
    /\ UNCHANGED <<batches, last_modified, today, op, pre, call, dbase>>

\* The default database has been created and is the active one; no
\* invocation has started.
RaceInit ==
    /\ batches = <<>>
    /\ last_modified = 0
    /\ today = 0
    /\ op = NoOp
    /\ pre = NoFile
    /\ call = NoCall
    /\ procs = [p \in Procs |-> Idle]
    /\ dbase = create_new_database(DEFAULT_DATABASE_NAME,
                                   ensure_config_exists(EmptyFolder).folder, 0).folder

RaceNext ==
    \/ \E p \in Procs : \E cmd \in RaceCommands : ReadStep(p, cmd)
    \/ \E p \in Procs : OpenStep(p)
    \/ \E p \in Procs : DumpStep(p)
    \/ BothExit

RaceSpec == RaceInit /\ [][RaceNext]_vars

\* ------------------------------------- the limit of insert and of optimize
\* The values MAX_EMAILS_PER_BATCH may be set to in a deployment; the
\* default of optimize_batches' max_per_batch is a literal of its own.
Configurations == 1..(BatchLimit + 1)

\* The addresses of the entries a database under test holds, in the order
\* of their insertion, and the address of the entry inserted next.
HeldAddresses == <<Email_a, Email_b, Email_7, Email_8>>

RECURSIVE ChunkFrom(_, _, _, _)
\* The entries es from position start on, cut into batches after the
\* positions of cuts, numbered from id.
ChunkFrom(es, cuts, start, id) ==
    IF start > Len(es)
    THEN <<>>
    ELSE LET ends == { c \in cuts : c >= start } \cup { Len(es) }
             stop == CHOOSE c \in ends : \A d \in ends : c <= d
         IN  <<[id |-> id, emails |-> SubSeq(es, start, stop)]>>
                 \o ChunkFrom(es, cuts, stop + 1, id + 1)

\* The collections a database can hold under a limit: the first n entries
\* in batches of one to limit entries, numbered 1..N.
CollectionsUnder(limit) ==
    LET held(n) == [i \in 1..n |->
                       new_entry_of(ParsedEntry(HeldAddresses[i], NoText, NoText,
                                                NoText, NoText))]
        all == { ChunkFrom(held(n), cuts, 1, 1) :
                     <<n, cuts>> \in { <<m, c>> \in (0..Len(HeldAddresses))
                                                     \X SUBSET (1..Len(HeldAddresses)) :
                                           c \subseteq 1..(m - 1) } }
    IN  { bs \in all : \A i \in DOMAIN bs : Len(bs[i].emails) <= limit }

\* The entries inserted after the optimize.
NextEntries ==
    { ParsedEntry(Email_z, NoText, NoText, NoText, NoText),
      ParsedEntry(Email_z, <<"J", " ", "D">>, <<"J">>, NoText, <<"D">>) }

\* A deployment with its limit, a database it holds and the entry to insert.
LimitInit ==
    /\ batches = <<>>
    /\ last_modified = 0
    /\ today = 0
    /\ op = NoOp
    /\ pre = NoFile
    /\ dbase = EmptyFolder
    /\ procs = NoProcs
    /\ call \in { [NoCall EXCEPT !.fn = "optimize, insert",
                                 !.arg = [limit |-> limit, entry |-> entry,
                                          data |-> [batches |-> bs, last_modified |-> 0]]] :
                      <<limit, entry, bs>> \in
                          { <<l, e, b>> \in Configurations \X NextEntries
                                              \X UNION { CollectionsUnder(k) :
                                                             k \in Configurations } :
                                b \in CollectionsUnder(l) } }

\* optimize_command runs, then add_email_entry inserts the entry under the
\* deployment's MAX_EMAILS_PER_BATCH.
RunOptimizeInsert ==
    /\ call.fn = "optimize, insert"
    /\ ~call.done
    /\ LET optimized == optimize_command(call.arg.data, today).file
       IN  call' = [call EXCEPT
                       !.done = TRUE,
                       !.result = [optimized |-> optimized.batches,
                                   inserted |-> place_entry_under(
                                                    new_entry_of(call.arg.entry),
                                                    optimized.batches,
                                                    call.arg.limit)]]
    /\ UNCHANGED <<batches, last_modified, today, op, pre, dbase, procs>>

LimitSpec == LimitInit /\ [][RunOptimizeInsert]_vars

\* ------------------------------------------------------- claims' vocabulary
\* The two spellings of each letter the inputs use.
CasePairs ==
    { <<"a", "A">>, <<"b", "B">>, <<"i", "I">>, <<"o", "O">>, <<"z", "Z">> }

SameLetter(c, d) == c = d \/ <<c, d>> \in CasePairs \/ <<d, c>> \in CasePairs

\* Two addresses are equal when compared case-insensitively.
SameAddress(a, b) ==
    Len(a) = Len(b) /\ \A i \in DOMAIN a : SameLetter(a[i], b[i])

Spellings(c) ==
    {c} \cup { q[1] : q \in { r \in CasePairs : r[2] = c } }
        \cup { q[2] : q \in { r \in CasePairs : r[1] = c } }

RECURSIVE SpellingsOf(_)
SpellingsOf(e) ==
    IF e = <<>>
    THEN { <<>> }
    ELSE { <<c>> \o rest : c \in Spellings(Head(e)), rest \in SpellingsOf(Tail(e)) }

\* The addresses the commands are given.
Addresses ==
    { e.email : e \in ParsedEntries \cup StudentEntries } \cup RemoveArgs

\* Every address that differs from e in letter case only, e included.
CaseVariants == [e \in Addresses |-> SpellingsOf(e)]

\* Some entry of the batches list bs has the address email, up to letter case.
Stored(bs, email) ==
    \E i \in DOMAIN bs : \E j \in DOMAIN bs[i].emails :
        SameAddress(bs[i].emails[j].email, email)

RECURSIVE EntriesUpTo(_, _)
\* The entries of the first k batches of bs, read batch by batch.
EntriesUpTo(bs, k) ==
    IF k = 0 THEN <<>> ELSE EntriesUpTo(bs, k - 1) \o bs[k].emails

AllEntries(bs) == EntriesUpTo(bs, Len(bs))

\* ------------------------------------------------------------------ claims
\* C1: from the empty database on, no two stored entries, in the same batch
\* or in different batches, have emails that are equal when compared
\* case-insensitively.
C1_UniqueEmails ==
    \A i1, i2 \in DOMAIN batches :
        \A j1 \in DOMAIN batches[i1].emails : \A j2 \in DOMAIN batches[i2].emails :
            (i1 # i2 \/ j1 # j2) =>
                ~SameAddress(batches[i1].emails[j1].email, batches[i2].emails[j2].email)

\* An add or import has stored one address and refused another that was
\* already stored, with the entries spread over two batches or more.
C1_Witness ==
    /\ op.name \in {"add", "import"}
    /\ op.added > 0
    /\ op.skipped > 0
    /\ Len(batches) >= 2

\* C2: every batch holds at most MAX_EMAILS_PER_BATCH entries, and an insert
\* into a collection whose last batch holds exactly MAX_EMAILS_PER_BATCH
\* entries never makes that batch longer.
C2_CapacityRespected ==
    /\ \A i \in DOMAIN batches : Len(batches[i].emails) <= MAX_EMAILS_PER_BATCH
    /\ LET n == Len(pre.batches)
       IN  (/\ op.name \in {"add", "import"}
            /\ n > 0
            /\ Len(pre.batches[n].emails) = MAX_EMAILS_PER_BATCH)
           => /\ Len(batches) >= n
              /\ batches[n].emails = pre.batches[n].emails

\* An add has stored an entry in a collection whose last batch was full.
C2_Witness ==
    /\ op.name = "add"
    /\ op.added > 0
    /\ pre.batches # <<>>
    /\ Len(pre.batches[Len(pre.batches)].emails) = MAX_EMAILS_PER_BATCH

\* C3: after every mutation by add, rem and optimize the batch ids read in
\* list order are exactly 1, 2, ..., N.
C3_ContiguousIds ==
    \A i \in DOMAIN batches : batches[i].id = i

\* A rem has deleted the first batch and batches remain after it.
C3_Witness ==
    /\ op.name = "rem"
    /\ op.ret
    /\ Len(pre.batches) >= 2
    /\ Len(pre.batches[1].emails) = 1
    /\ SameAddress(pre.batches[1].emails[1].email, op.email)

\* C4: no persisted batch is empty, and a batch whose only entry is removed
\* is deleted, with the following batches renumbered to close the gap.
C4_NoEmptyBatch ==
    /\ \A i \in DOMAIN batches : batches[i].emails # <<>>
    /\ \A b \in DOMAIN pre.batches :
          (/\ op.name = "rem"
           /\ Len(pre.batches[b].emails) = 1
           /\ SameAddress(pre.batches[b].emails[1].email, op.email))
          => /\ Len(batches) = Len(pre.batches) - 1
             /\ \A i \in DOMAIN batches :
                   /\ batches[i].id = i
                   /\ batches[i].emails =
                         pre.batches[IF i < b THEN i ELSE i + 1].emails

\* A rem has removed the only entry of a batch that was not the last one.
C4_Witness ==
    /\ op.name = "rem"
    /\ \E b \in DOMAIN pre.batches :
          /\ b < Len(pre.batches)
          /\ Len(pre.batches[b].emails) = 1
          /\ SameAddress(pre.batches[b].emails[1].email, op.email)

\* C5: after add_email_entry has inserted e, is_email_exists is true for e
\* and for every e' that differs from e in letter case only, and inserting e
\* or such an e' again returns False and leaves the number of entries
\* unchanged.
C5_InsertThenExists ==
    op.name = "add" =>
        \A k \in DOMAIN op.entries : \A v \in CaseVariants[op.entries[k].email] :
            /\ is_email_exists(v, read_mailing_list)
            /\ LET again == add_email_entry([op.entries[k] EXCEPT !.email = v],
                                            read_mailing_list)
               IN  /\ ~again.ret
                   /\ Len(AllEntries(again.data.batches)) = Len(AllEntries(batches))

\* An add has inserted an address that was not stored before.
C5_Witness ==
    /\ op.name = "add"
    /\ op.added >= 1
    /\ \E k \in DOMAIN op.entries : ~Stored(pre.batches, op.entries[k].email)

\* C6: an insert of an address that is already stored (case-insensitively)
\* changes no batch, id or entry, and an add command whose entries are all
\* duplicates does not rewrite the file and leaves last_modified as it was.
C6_DuplicateMutatesNothing ==
    /\ \A e \in ParsedEntries :
          Stored(batches, e.email) =>
              add_email_entry(e, read_mailing_list) =
                  [ret |-> FALSE, data |-> read_mailing_list]
    /\ (/\ op.name = "add"
        /\ op.entries # <<>>
        /\ \A k \in DOMAIN op.entries : Stored(pre.batches, op.entries[k].email))
       => /\ ~op.wrote
          /\ ~op.ret
          /\ batches = pre.batches
          /\ last_modified = pre.last_modified

\* An add of two entries, both already stored, has run on a later day than
\* the file's last_modified.
C6_Witness ==
    /\ op.name = "add"
    /\ Len(op.entries) = 2
    /\ \A k \in DOMAIN op.entries : Stored(pre.batches, op.entries[k].email)
    /\ today > pre.last_modified

\* C7: an insert of an entry that is not stored succeeds; when a batch
\* exists and the last one has fewer than MAX_EMAILS_PER_BATCH entries the
\* entry goes to the end of the last batch and no other batch changes,
\* otherwise a new batch holding only that entry is appended with id equal to
\* the previous number of batches plus one; earlier batches with room are not
\* used.
C7_InsertPlacement ==
    (/\ op.name \in {"add", "import"}
     /\ Len(op.entries) = 1
     /\ ~Stored(pre.batches, op.entries[1].email))
    => LET n == Len(pre.batches)
           e == op.entries[1]
       IN  /\ op.ret
           /\ op.added = 1
           /\ IF n > 0 /\ Len(pre.batches[n].emails) < MAX_EMAILS_PER_BATCH
              THEN /\ Len(batches) = n
                   /\ \A i \in 1..(n - 1) : batches[i] = pre.batches[i]
                   /\ batches[n].id = pre.batches[n].id
                   /\ batches[n].emails = Append(pre.batches[n].emails, e)
              ELSE /\ Len(batches) = n + 1
                   /\ \A i \in 1..n : batches[i] = pre.batches[i]
                   /\ batches[n + 1] = [id |-> n + 1, emails |-> <<e>>]

\* An add of one new entry has run on a collection whose last batch was full
\* while an earlier batch had room.
C7_Witness ==
    /\ op.name = "add"
    /\ Len(op.entries) = 1
    /\ ~Stored(pre.batches, op.entries[1].email)
    /\ pre.batches # <<>>
    /\ Len(pre.batches[Len(pre.batches)].emails) = MAX_EMAILS_PER_BATCH
    /\ \E i \in DOMAIN pre.batches : Len(pre.batches[i].emails) < MAX_EMAILS_PER_BATCH

\* C8: after a successful remove_email(e'), with e' equal up to letter case
\* to a stored e, is_email_exists is false for e and each case variant of e.
C8_RemovedIsGone ==
    (op.name = "rem" /\ Stored(pre.batches, op.email))
    => /\ op.ret
       /\ \A v \in CaseVariants[op.email] : ~is_email_exists(v, read_mailing_list)

\* A rem has removed an entry whose address is spelled otherwise than the
\* address the command was given.
C8_Witness ==
    /\ op.name = "rem"
    /\ op.ret
    /\ \E i \in DOMAIN pre.batches : \E j \in DOMAIN pre.batches[i].emails :
          /\ SameAddress(pre.batches[i].emails[j].email, op.email)
          /\ pre.batches[i].emails[j].email # op.email

\* C9: removing an address that is not stored returns False and leaves the
\* file as it was: no batch, entry, id or last_modified value changes and the
\* file is not rewritten.
C9_RemoveMissingChangesNothing ==
    (op.name = "rem" /\ ~Stored(pre.batches, op.email))
    => /\ ~op.ret
       /\ ~op.wrote
       /\ batches = pre.batches
       /\ last_modified = pre.last_modified

\* A rem of an address that is not stored has run on a database that holds
\* entries, on a later day than the file's last_modified.
C9_Witness ==
    /\ op.name = "rem"
    /\ ~Stored(pre.batches, op.email)
    /\ pre.batches # <<>>
    /\ today > pre.last_modified

\* C10: optimize_batches preserves the entries and their relative order: the
\* concatenation of the batches' entry lists, in batch order, is the same
\* before and after.
C10_OptimizePreservesOrder ==
    /\ AllEntries(optimize_batches(read_mailing_list, DEFAULT_MAX_PER_BATCH).batches)
          = AllEntries(batches)
    /\ op.name = "optimize" => AllEntries(batches) = AllEntries(pre.batches)

\* An optimize has run on unevenly filled batches and moved entries from one
\* batch to another.
C10_Witness ==
    /\ op.name = "optimize"
    /\ Len(pre.batches) >= 2
    /\ \E i \in DOMAIN pre.batches : Len(pre.batches[i].emails) < MAX_EMAILS_PER_BATCH
    /\ batches # pre.batches

\* Limits optimize_batches is tried with.
Limits == 1..(BatchLimit + 1)

\* Number of batches that n entries need at least when a batch holds L.
CeilDiv(n, L) == (n + L - 1) \div L

\* bs is numbered 1..N, every batch but the last holds exactly L entries and
\* the last holds between 1 and L.
Packed(bs, L) ==
    \A i \in DOMAIN bs :
        /\ bs[i].id = i
        /\ Len(bs[i].emails) >= 1
        /\ Len(bs[i].emails) <= L
        /\ i < Len(bs) => Len(bs[i].emails) = L

\* C11: optimize_batches with limit L on n entries returns ceil(n / L)
\* batches (none when n = 0), numbered 1..N, all but the last holding exactly
\* L entries and the last between 1 and L; fewer batches could not hold the
\* n entries.
C11_OptimizePacks ==
    op.name = "optimize" =>
        LET n == Len(AllEntries(pre.batches))
        IN  /\ Packed(batches, DEFAULT_MAX_PER_BATCH)
            /\ Len(batches) = CeilDiv(n, DEFAULT_MAX_PER_BATCH)
            /\ \A L \in Limits :
                  LET bs == optimize_batches(pre, L).batches
                  IN  /\ Packed(bs, L)
                      /\ Len(bs) = CeilDiv(n, L)
                      /\ n = 0 => bs = <<>>
                      /\ \A K \in 0..(Len(bs) - 1) : K * L < n

\* An optimize has run on unevenly filled batches, returned fewer batches
\* than it was given, and the last of them is not full.
C11_Witness ==
    /\ op.name = "optimize"
    /\ Len(batches) >= 2
    /\ Len(batches) < Len(pre.batches)
    /\ Len(batches[Len(batches)].emails) < DEFAULT_MAX_PER_BATCH

\* C12: optimize_batches applied twice with the same limit gives, the second
\* time, the batches of the first time: same ids, same entries in the same
\* order, same boundaries.
C12_OptimizeIdempotent ==
    op.name = "optimize" =>
        /\ optimize_batches(read_mailing_list, DEFAULT_MAX_PER_BATCH).batches = batches
        /\ \A L \in Limits :
              LET once == optimize_batches(pre, L)
              IN  optimize_batches(once, L).batches = once.batches

\* An optimize has changed the batches it was given, three entries or more
\* among them.
C12_Witness ==
    /\ op.name = "optimize"
    /\ batches # pre.batches
    /\ Len(AllEntries(batches)) >= 3

\* C13: distinct addresses inserted one after another into an empty
\* collection, with no removal in between, fill the batches to sizes
\* L, L, ..., remainder, and an optimize with the same limit then leaves
\* sizes, ids and placement as they are.
C13_SequentialInsertIsPacked ==
    /\ Packed(batches, MAX_EMAILS_PER_BATCH)
    /\ Len(batches) = CeilDiv(Len(AllEntries(batches)), MAX_EMAILS_PER_BATCH)
    /\ op.name = "optimize" => batches = pre.batches

\* An optimize has run after inserts that filled two batches and started
\* a third.
C13_Witness ==
    /\ op.name = "optimize"
    /\ Len(pre.batches) >= 3
    /\ Len(pre.batches[1].emails) = MAX_EMAILS_PER_BATCH
    /\ Len(pre.batches[Len(pre.batches)].emails) < MAX_EMAILS_PER_BATCH

\* The addresses of the entries of es, in order.
EmailsOf(es) == [i \in DOMAIN es |-> es[i].email]

\* The addresses stored in bs.
StoredAddresses(bs) == { AllEntries(bs)[i].email : i \in DOMAIN AllEntries(bs) }

RECURSIVE Accepted(_, _)
\* The addresses of entries, in order, that are equal in lower case neither
\* to one of have nor to an earlier one of entries.
Accepted(entries, have) ==
    IF entries = <<>>
    THEN <<>>
    ELSE IF \E h \in have : SameAddress(h, Head(entries).email)
         THEN Accepted(Tail(entries), have)
         ELSE <<Head(entries).email>>
                 \o Accepted(Tail(entries), have \cup {Head(entries).email})

\* C14: insertion order is preserved: an add or import puts each entry it
\* stores after every entry already stored, in the order given; a remove
\* takes one entry out and an optimize none, and both leave the others in
\* their order. So the entries read batch by batch are the surviving entries
\* in the order of their insertion.
C14_InsertionOrderPreserved ==
    LET before == EmailsOf(AllEntries(pre.batches))
        after == EmailsOf(AllEntries(batches))
    IN  /\ op.name \in {"add", "import"} =>
              after = before \o Accepted(op.entries, StoredAddresses(pre.batches))
        /\ op.name = "rem" =>
              IF op.ret
              THEN \E i \in DOMAIN before : after = Pop(before, i)
              ELSE after = before
        /\ op.name = "optimize" => after = before

\* An add has stored its second entry after refusing its first, in a
\* collection that held two entries or more.
C14_Witness ==
    /\ op.name = "add"
    /\ Len(op.entries) = 2
    /\ Stored(pre.batches, op.entries[1].email)
    /\ ~Stored(pre.batches, op.entries[2].email)
    /\ Len(AllEntries(pre.batches)) >= 2

\* The text '"{name}" <{email}>;', or '<{email}>;' for an empty name.
CanonicalText(name, email) ==
    IF name = <<>>
    THEN <<"<">> \o email \o <<">", ";">>
    ELSE <<"\"">> \o name \o <<"\"", " ", "<">> \o email \o <<">", ";">>

\* C19: full_entry of every entry stored by add or by the import can be
\* derived again from name and email, also after later adds, removes and
\* optimizes.
C19_FullEntryDerivable ==
    \A i \in DOMAIN batches : \A j \in DOMAIN batches[i].emails :
        LET e == batches[i].emails[j]
        IN  e.full_entry = CanonicalText(e.name, e.email)

\* A rem or an optimize has run on a database that holds a named entry
\* stored by add and one stored by the import.
C19_Witness ==
    /\ op.name \in {"rem", "optimize"}
    /\ op.ret
    /\ \E i \in DOMAIN AllEntries(batches) :
          AllEntries(batches)[i].name = <<"J", " ", "D">>
    /\ \E i \in DOMAIN AllEntries(batches) :
          AllEntries(batches)[i].name \in {<<"K">>, <<"L">>}

\* Position i of text s follows a "<" with no "<" or ">" in between: the
\* inside-angle-brackets flag is true there.
FlagTrueAt(s, i) ==
    \E j \in 1..(i - 1) :
        /\ s[j] = "<"
        /\ \A k \in (j + 1)..(i - 1) : s[k] \notin {"<", ">"}

\* Number of positions before i of s that hold the character c.
CountBefore(s, i, c) == Cardinality({ j \in 1..(i - 1) : s[j] = c })

\* s without the whitespace at its two ends.
Trimmed(s) ==
    LET inked == { i \in DOMAIN s : s[i] \notin Whitespace }
    IN  IF inked = {}
        THEN <<>>
        ELSE SubSeq(s, CHOOSE i \in inked : \A j \in inked : i <= j,
                       CHOOSE i \in inked : \A j \in inked : i >= j)

RECURSIVE PiecesFrom(_, _, _)
\* The pieces of s from position start on when it is cut at the positions
\* of cuts, each piece trimmed and the empty ones left out.
PiecesFrom(s, start, cuts) ==
    LET ahead == { p \in cuts : p >= start }
        stop == IF ahead = {}
                THEN Len(s) + 1
                ELSE CHOOSE p \in ahead : \A q \in ahead : p <= q
        piece == Trimmed(SubSeq(s, start, stop - 1))
        rest == IF ahead = {} THEN <<>> ELSE PiecesFrom(s, stop + 1, cuts)
    IN  IF piece = <<>> THEN rest ELSE <<piece>> \o rest

\* C15: the tokenizer splits the input exactly at the ";" met while the
\* inside-angle-brackets flag is false and copies a ";" met while it is true;
\* the result is the ordered list of the fragments, trimmed, without the
\* empty ones, the last fragment included.
C15_TokenizerSplitsOutsideBrackets ==
    (call.fn = "tokenize" /\ call.done) =>
        LET s == call.arg
        IN  call.result =
                PiecesFrom(s, 1, { i \in DOMAIN s : s[i] = ";" /\ ~FlagTrueAt(s, i) })

\* The tokenizer has returned two fragments for a text with a ";" inside
\* angle brackets and a ";" outside them.
C15_Witness ==
    /\ call.fn = "tokenize"
    /\ call.done
    /\ Len(call.result) = 2
    /\ \E i \in DOMAIN call.arg : call.arg[i] = ";" /\ FlagTrueAt(call.arg, i)
    /\ \E i \in DOMAIN call.arg : call.arg[i] = ";" /\ ~FlagTrueAt(call.arg, i)

\* The angle brackets of s are balanced.
Balanced(s) ==
    /\ CountBefore(s, Len(s) + 1, "<") = CountBefore(s, Len(s) + 1, ">")
    /\ \A i \in DOMAIN s : CountBefore(s, i + 1, "<") >= CountBefore(s, i + 1, ">")

\* C16: on an input with balanced angle brackets no ";" between a "<" and
\* its matching ">" is a split point, also when further pairs are nested in
\* that pair: the input is split at the ";" outside every pair only.
C16_NestingRespected ==
    (call.fn = "tokenize" /\ call.done /\ Balanced(call.arg)) =>
        LET s == call.arg
        IN  call.result =
                PiecesFrom(s, 1, { i \in DOMAIN s :
                                      /\ s[i] = ";"
                                      /\ CountBefore(s, i, "<") = CountBefore(s, i, ">") })

\* The tokens of s: its runs of characters that are not whitespace.
TokensOf(s) == PiecesFrom(s, 1, { i \in DOMAIN s : s[i] \in Whitespace })

RECURSIVE SpaceJoined(_)
\* The texts of ts with one space between two neighbours.
SpaceJoined(ts) ==
    IF Len(ts) = 0
    THEN <<>>
    ELSE IF Len(ts) = 1 THEN ts[1] ELSE ts[1] \o <<" ">> \o SpaceJoined(Tail(ts))

\* C20: parse_name splits the name on runs of whitespace into t1..tk and
\* returns all components empty for k = 0, first_name t1 alone for k = 1,
\* first_name t1 and last_name t2 for k = 2, and for k >= 3 first_name t1,
\* last_name tk and middle_names t2..t(k-1) joined by single spaces; the
\* non-empty components joined by single spaces give back t1..tk.
C20_ParseNameByTokenCount ==
    (call.fn = "parse_name" /\ call.done) =>
        LET t == TokensOf(call.arg)
            k == Len(t)
            r == call.result
            kept == SelectSeq(<<r.first_name, r.middle_names, r.last_name>>,
                              LAMBDA c : c # <<>>)
        IN  /\ ~r.raised
            /\ r.first_name = IF k >= 1 THEN t[1] ELSE <<>>
            /\ r.last_name = IF k >= 2 THEN t[k] ELSE <<>>
            /\ r.middle_names = IF k >= 3 THEN SpaceJoined(SubSeq(t, 2, k - 1)) ELSE <<>>
            /\ SpaceJoined(kept) = SpaceJoined(t)

\* The fragment matches one of the three formats once the spaces and quotes
\* at its ends are stripped.
MatchesAFormat(fragment) ==
    LET entry == Strip(fragment, QuoteChars)
    IN  MatchNameEmail(entry).matched \/ MatchAngle(entry).matched
            \/ MatchPlain(entry).matched

\* The fragments of the add command's arguments.
FragmentsOf(args_list) == Tokenize(SpaceJoined(args_list))

\* The address in a fragment that matches a format: the text after its last
\* "<" without the closing ">", or the whole of it when it holds no "<".
AddressIn(fragment) ==
    LET entry == Strip(fragment, QuoteChars)
        opens == { i \in DOMAIN entry : entry[i] = "<" }
    IN  IF opens = {}
        THEN entry
        ELSE SubSeq(entry, (CHOOSE i \in opens : \A j \in opens : i >= j) + 1,
                    Len(entry) - 1)

\* The name in a fragment that matches a format: the text before its last
\* "<", without the whitespace and quotes at its ends.
NameIn(fragment) ==
    LET entry == Strip(fragment, QuoteChars)
        opens == { i \in DOMAIN entry : entry[i] = "<" }
    IN  IF opens = {}
        THEN <<>>
        ELSE Strip(Trimmed(SubSeq(entry, 1,
                                  (CHOOSE i \in opens : \A j \in opens : i >= j) - 1)),
                   QuoteChars)

\* C17: a fragment that matches no format is dropped and does not abort the
\* parsing: parse_email_entries returns, in input order, one entry for every
\* fragment that matches, wherever the others stand, and the add command
\* goes on to insert those entries.
C17_BadFragmentsNeverAbort ==
    (call.fn = "parse_email_entries" /\ call.done) =>
        LET good == SelectSeq(FragmentsOf(call.arg), MatchesAFormat)
        IN  /\ ~call.result.raised
            /\ EmailsOf(call.result.entries) = [i \in DOMAIN good |-> AddressIn(good[i])]
            /\ op.entries = call.result.entries
            /\ op.added + op.skipped = Len(good)
            /\ \A i \in DOMAIN good : Stored(batches, AddressIn(good[i]))

\* C18: each fragment is classified by the first format it matches: a
\* 'Name <email>' fragment gives the captured name without its quotes and the
\* email, a '<email>' or bare email fragment gives an empty name and empty
\* name components, and every entry has a non-empty email that matches the
\* core pattern; a quoted three-word name, a bracketed and a bare address
\* give the names 'J Q. D', '' and ''.
C18_FormatsInOrder ==
    (call.fn = "parse_email_entries" /\ call.done) =>
        LET good == SelectSeq(FragmentsOf(call.arg), MatchesAFormat)
            out == call.result.entries
        IN  /\ ~call.result.raised
            /\ Len(out) = Len(good)
            /\ \A i \in DOMAIN out :
                  /\ out[i].email # <<>>
                  /\ IsEmailCore(out[i].email)
                  /\ out[i].email = AddressIn(good[i])
                  /\ out[i].name = NameIn(good[i])
                  /\ out[i].name = <<>> =>
                        /\ out[i].first_name = <<>>
                        /\ out[i].middle_names = <<>>
                        /\ out[i].last_name = <<>>
            /\ call.arg = OneArgument(<<Text_named, Text_angle>>) =>
                  /\ out[1].name = <<"J", " ", "Q", ".", " ", "D">>
                  /\ out[1].first_name = <<"J">>
                  /\ out[1].middle_names = <<"Q", ".">>
                  /\ out[1].last_name = <<"D">>
                  /\ out[2].name = <<>>

\* ---------------------------------------------------------------- C21
\* The database files of a folder: every file but the configuration file.
DatabaseFiles(folder) == DOMAIN folder \ {CONFIG_FILE}

\* The two folders hold the same database files with the same content.
SameDatabases(f, g) ==
    /\ DatabaseFiles(f) = DatabaseFiles(g)
    /\ \A file \in DatabaseFiles(f) : f[file] = g[file]

\* The commands that start by reading the active database.
ReadingCommands == ReadCommands \cup { "add", "rem", "optimize" }

\* C21: a read never creates a database. When the active database's file
\* does not exist, print, batches, stat, check, add, rem and optimize get
\* None from their read, which reports the missing file, return a failure
\* value, and leave the folder's database files as they were: none created,
\* none written.
C21_ReadNeverCreates ==
    (op.name \in ReadingCommands /\ ~Exists(pre, op.db_path)) =>
        /\ op.data = None
        /\ op.reported
        /\ op.ret \in { "False", "None" }
        /\ SameDatabases(dbase, pre)

\* A read command has run while the active database was missing and another
\* database existed.
C21_Witness ==
    /\ op.name \in ReadingCommands
    /\ ~Exists(pre, op.db_path)
    /\ DatabaseFiles(pre) # {}

\* ---------------------------------------------------------------- C22
\* The database files the command that has just run brought into existence.
CreatedFiles ==
    IF op = NoOp THEN {} ELSE DatabaseFiles(dbase) \ DatabaseFiles(pre)

\* The file create_new_database writes: the name, one time stamp for both
\* dates, and no batch.
FreshDatabase(content) ==
    /\ content.batches = <<>>
    /\ content.created = content.last_modified

\* The active database the configuration of a folder names.
ActiveIn(folder) == get_active_database_path(folder).db_path

C23_FailedWriteLeavesFile ==
    (op.name \in { "add", "rem", "optimize" } /\ op.attempted /\ op.fault # "none") =>
        /\ op.ret = "False"
        /\ dbase[op.db_path] = pre[op.db_path]

\* ---------------------------------------------------------------- C24
\* The addresses stored in a database file, batch by batch.
AddressesIn(content) == EmailsOf(Flatten(content.batches))

\* The set of the elements of a sequence.
Range(s) == { s[i] : i \in DOMAIN s }

\* C24: a duplicate does not abort an add of several entries. Whether by
\* add_emails, add_emails_to_database or the import, every entry whose
\* address (compared without case) is neither stored nor given by an earlier
\* entry of the same command is added, each other entry is skipped wherever
\* it stands, the count of added entries reported is the number of entries
\* the file gained, and added plus skipped is the number of entries given.
C24_DuplicatesSkippedNotAborting ==
    (op.name \in { "add", "import", "add_emails_to_database" }) =>
        LET before == AddressesIn(pre[DefaultFile])
            after == AddressesIn(dbase[DefaultFile])
            accepted == Accepted(op.input, Range(before))
        IN  /\ Range(after) = Range(before) \cup Range(accepted)
            /\ Len(after) = Len(before) + op.added
            /\ op.added = Len(accepted)
            /\ op.added + op.skipped = Len(op.input)

\* An add of two entries has skipped the first, a duplicate, and added the
\* second.
C24_Witness ==
    /\ op.name \in { "add", "add_emails_to_database" }
    /\ Len(op.input) = 2
    /\ op.skipped = 1
    /\ op.added = 1
    /\ \E h \in Range(AddressesIn(pre[DefaultFile])) :
           SameAddress(h, op.input[1].email)

\* ---------------------------------------------------------------- C25
\* C25: create_new_database never overwrites an existing database. Asked
\* for a name whose file exists it returns False and leaves the folder as it
\* was; when it succeeds the new file holds the name given, the same time
\* stamp as created and last_modified, and no batch, and every other file is
\* as it was.
C25_NewNeverOverwrites ==
    (op.name = "new") =>
        IF Exists(pre, op.file)
        THEN op.ret = "False" /\ dbase = pre
        ELSE op.ret = "True" =>
                 /\ Exists(dbase, op.file)
                 /\ dbase[op.file].name = safe_db_name(op.input)
                 /\ dbase[op.file].created = dbase[op.file].last_modified
                 /\ dbase[op.file].batches = <<>>
                 /\ \A file \in DOMAIN pre : dbase[file] = pre[file]
                 /\ DOMAIN dbase = DOMAIN pre \cup {op.file}

\* A 'new' request has named a database that exists and holds an entry.
C25_Witness ==
    /\ op.name = "new"
    /\ op.file \in DatabaseFiles(pre)
    /\ pre[op.file].batches # <<>>
    /\ op.ret = "False"

\* ---------------------------------------------------------------- C26
\* The ids of the batches, in batch order.
IdsOf(bs) == [i \in DOMAIN bs |-> bs[i].id]

\* The ids are 1..N in batch order.
ContiguousIds(bs) == \A i \in DOMAIN bs : bs[i].id = i

\* The batches of the default database before and after the command.
BatchesBefore == pre[DefaultFile].batches

BatchesAfter == dbase[DefaultFile].batches

WellFormed(bs) ==
    /\ \A i, j \in DOMAIN Flatten(bs) :
           i # j => ~SameAddress(Flatten(bs)[i].email, Flatten(bs)[j].email)
    /\ \A i \in DOMAIN bs : Len(bs[i].emails) <= MAX_EMAILS_PER_BATCH
    /\ ContiguousIds(bs)

\* The database file can be loaded.
Readable(content) == content \notin { Truncated, Emptied, Garbled }

\* Both invocations have written and exited, and both had read before
\* either reached its write.
Raced ==
    /\ \A p \in Procs : procs[p].pc = "done" /\ procs[p].rank > 0
    /\ \E p \in Procs : procs[p].raced

\* The invocation whose write ended last, and the other one.
LaterWriter == CHOOSE p \in Procs : procs[p].rank = 2

EarlierWriter == Other(LaterWriter)

\* One invocation opened the file while the other had it open.
WritesOverlapped == \E p \in Procs : procs[p].overlapped

C28_OneLimitForOptimizeAndInsert ==
    (call.fn = "optimize, insert" /\ call.done) =>
        LET limit == call.arg.limit
            optimized == call.result.optimized
            inserted == call.result.inserted
        IN  /\ Packed(optimized, limit)
            /\ Len(inserted) = Len(optimized) + 1
                   <=> (optimized = <<>> \/ Len(optimized[Len(optimized)].emails) = limit)

\* ---------------------------------------------------------------- C29
\* Position in the entries es of the first whose address equals email up to
\* letter case, 0 when there is none.
FirstMatch(es, email) ==
    IF \E i \in DOMAIN es : SameAddress(es[i].email, email)
    THEN CHOOSE i \in DOMAIN es :
             /\ SameAddress(es[i].email, email)
             /\ \A j \in 1..(i - 1) : ~SameAddress(es[j].email, email)
    ELSE 0

\* C29: a successful remove_email(e) removes exactly one entry, the first in
\* batch order whose email equals e up to letter case: the number of entries
\* goes down by one and every other entry stays stored, with all its fields
\* as they were and in the same relative order (batch boundaries and ids may
\* shift).
C29_RemoveTakesOutFirstMatchOnly ==
    (op.name = "rem" /\ op.ret) =>
        LET before == AllEntries(pre.batches)
            after == AllEntries(batches)
            i == FirstMatch(before, op.email)
        IN  /\ i > 0
            /\ Len(after) = Len(before) - 1
            /\ \A j \in 1..(i - 1) : after[j] = before[j]
            /\ \A j \in i..Len(after) : after[j] = before[j + 1]

\* A rem given an address spelled otherwise than the stored one has taken
\* out an entry that had entries before and after it, from a collection of
\* two batches or more.
C29_Witness ==
    /\ op.name = "rem"
    /\ op.ret
    /\ Len(pre.batches) >= 2
    /\ LET before == AllEntries(pre.batches)
           i == FirstMatch(before, op.email)
       IN  /\ 1 < i
           /\ i < Len(before)
           /\ before[i].email # op.email

\* ---------------------------------------------------------------- C30
\* The configuration file of a folder names a database whose file exists.
ActiveExists(folder) ==
    /\ Exists(folder, CONFIG_FILE)
    /\ Exists(folder, ActiveIn(folder))

\* C30: once activate_database has succeeded, the database the
\* configuration names as active exists as a file after every new, del
\* (confirmed or cancelled) and activate: a successful activate leaves an
\* existing file active, and each of the three, run in a folder whose
\* configuration names an existing file, leaves the active database existing.
C30_ActiveDatabaseExists ==
    (op.name \in {"new", "del", "activate"}) =>
        /\ (op.name = "activate" /\ op.ret = "True")
               => Exists(dbase, ActiveIn(dbase))
        /\ ActiveExists(pre) => Exists(dbase, ActiveIn(dbase))

====
